---- MODULE Spec2Model ----
(***************************************************************************)
(* AwesomeAgentLogic (src/llm/awesome_agent_logic/agent.py): the loop of   *)
(* run(), the Decision Engine _decide_next_action, the Response            *)
(* Interpreter _try_parse_json_from_llm_response, the dispatch             *)
(* _execute_action and the fold _update_state, with the tools of           *)
(* src/llm/awesome_agent_logic/tools.py they call.                         *)
(*                                                                         *)
(* Python values are modelled as records of one shape per kind of value,   *)
(* so that TLC can compare them:                                           *)
(*   a string the program builds  -> [kind, repos] (StrEmpty is "")        *)
(*   a params value               -> [kind, keys, keywords, query, ...]    *)
(*   a parsed JSON value          -> [t, keys, action, params, ...]        *)
(*   a repository record          -> [url, stars, forks, pushed_at, score] *)
(* "Falsy" is Python's truth test: None, "", [], {} and 0.                 *)
(***************************************************************************)
EXTENDS Integers, Sequences, FiniteSets, TLC

VARIABLES
    pc,           \* where run() is: "idle", "plan", "loop", "post", "done"
    domain,       \* the argument of run()
    state,        \* the local dict `state` of run()
    history,      \* self.history
    last_action,  \* self.last_action
    iterations,   \* the local counter of the while loop
    ret,          \* what run() handed to its caller
    obs,          \* observation of the last step (not program state)
    replies,      \* model replies used in this run (bounds the model)
    empties,      \* empty collaborator results in this run (bounds the model)
    inp,          \* inputs of one Decision Engine call (DecideSpec)
    out           \* its result (DecideSpec)

vars == <<pc, domain, state, history, last_action, iterations, ret, obs,
          replies, empties, inp, out>>

(***************************************************************************)
(* Bounds of the model and constants of the program.                       *)
(***************************************************************************)
\* decisions of one run at which the model answers with a text (at the
\* others the call to the model fails and the decision tree decides)
MaxModelReplies == 1
\* dispatches of one run whose collaborator returns an empty result
MaxEmptyResults == 1
\* agent.py:109  max_iterations = 10
max_iterations == 10
\* agent.py:539  ranked_repos[:10]
TopN == 10
\* tools.py:424 and tools.py:485  repos[:5]
ReportTopN == 5

Min(a, b) == IF a < b THEN a ELSE b

Domains == {"containerization"}

NoAction == "<None>"

ActionEnum ==
    {"GENERATE_KEYWORDS", "SEARCH_GITHUB", "GENERATE_WEB_QUERIES", "SEARCH_WEB",
     "EXTRACT_GITHUB_LINKS", "GET_REPO_DETAILS", "CALCULATE_SCORES",
     "GENERATE_REPORT", "COMPLETE"}

\* an action name the model may write that is no member of the enumeration
OtherActions == {"DO_NOTHING"}

(***************************************************************************)
(* Strings the program builds.                                             *)
(***************************************************************************)
StrEmpty == [kind |-> "empty", repos |-> <<>>]
\* the text the model composer returned (StrOutputParser), non-empty
StrLlmReport == [kind |-> "llm", repos |-> <<>>]
\* agent.py:146  f"未能为 '{domain}' 找到相关的GitHub仓库。"
StrNotFound == [kind |-> "notfound", repos |-> <<>>]
\* agent.py:545  the message of GENERATE_REPORT without ranked repositories
StrNoRanked == [kind |-> "noranked", repos |-> <<>>]
\* agent.py:150  f"搜索过程中出错: {str(e)}"
StrError == [kind |-> "error", repos |-> <<>>]
\* no value: run() has not returned
NoReturn == [kind |-> "noreturn", repos |-> <<>>]

IsEmptyStr(s) == s.kind = "empty"

(***************************************************************************)
(* params: a mapping (kind "dict") with some of the keys the actions read, *)
(* or a value that is no mapping: a non-empty list (kind "list") or None   *)
(* (kind "null").                                                          *)
(***************************************************************************)
EmptyParams ==
    [kind |-> "dict", keys |-> {}, keywords |-> <<>>, query |-> "",
     url |-> "", repo_url |-> ""]
ListParams == [EmptyParams EXCEPT !.kind = "list"]
NullParams == [EmptyParams EXCEPT !.kind = "null"]
KeywordsParams(kws) ==
    [EmptyParams EXCEPT !.keys = {"keywords"}, !.keywords = kws]
QueryParams(q) == [EmptyParams EXCEPT !.keys = {"query"}, !.query = q]
UrlParams(u) == [EmptyParams EXCEPT !.keys = {"url"}, !.url = u]
RepoUrlParams(u) == [EmptyParams EXCEPT !.keys = {"repo_url"}, !.repo_url = u]

\* Python's truth test of a params value
ParamsTruthy(p) == \/ p.kind = "list"
                   \/ p.kind = "dict" /\ p.keys # {}
\* whether the value has the methods of a mapping (.get, .items)
IsMapping(p) == p.kind = "dict"

(***************************************************************************)
(* Values of the WorkState fields.                                         *)
(***************************************************************************)
\* a keyword the model wrote that is no Python str (json.loads gave a number)
NonStr == {"<int 7>"}
\* tools.py:331  the keywords generate_keywords returns when its call fails
DefaultKeywords ==
    <<"awesome repositories", "tutorial", "guide", "examples", "resources">>
\* tools.py:397-401  the queries generate_web_queries returns when its call fails
DefaultQueries(d) ==
    <<"best github repositories for " \o d, "top " \o d \o " projects on github",
      "recommended " \o d \o " libraries github">>

\* pushed_at is the age of the last push in whole days; two values stand for
\* a missing or empty timestamp and for one strptime cannot parse
PushedEmpty == -1
PushedBad == -2
NoScore == -1

UrlA == "https://github.com/a/a"
UrlB == "https://github.com/b/b"
UrlC == "https://github.com/c/c"
\* another spelling of UrlA: the API answers it with html_url = UrlA
UrlAliasA == "https://github.com/A/a"
\* a link that is no repository the API knows
UrlGone == "https://github.com/gone/gone"
\* a page URL a web search returns
PageUrl == "https://example.com/best"

RepoA == [url |-> UrlA, stars |-> 500, forks |-> 10, pushed_at |-> 5,
          score |-> NoScore]
RepoB == [url |-> UrlB, stars |-> 50, forks |-> 0, pushed_at |-> 400,
          score |-> NoScore]
RepoC == [url |-> UrlC, stars |-> 5, forks |-> 10, pushed_at |-> PushedBad,
          score |-> NoScore]

\* eleven items of one search, one more than the ranking keeps (the states
\* of DecideStates hold them; the runs of Spec search with the smaller results)
ManyStars == <<5, 500, 50, 0, 100, 10, 5, 500, 50, 0, 100>>
ManyRepos ==
    [i \in 1..Len(ManyStars) |->
        [url |-> "https://github.com/many/r" \o ToString(i),
         stars |-> ManyStars[i], forks |-> 0, pushed_at |-> 5,
         score |-> NoScore]]

\* a web result: search_web always writes the key "url", maybe as ""
WebResult(u) == [has_url |-> TRUE, url |-> u]

(***************************************************************************)
(* tools.py: what each collaborator can return.  Every tool catches its    *)
(* own failures and returns its default.                                   *)
(***************************************************************************)
\* tools.py:275-331  a JSON list as the model wrote it, or the default
generate_keywords_results ==
    {<<>>, <<"<int 7>">>, DefaultKeywords}

\* tools.py:25-66  the items of all keywords, concatenated (extend)
search_github_repositories_results ==
    {<<>>, <<RepoB, RepoA>>, <<RepoC>>}

\* tools.py:334-401
generate_web_queries_results(d) ==
    {<<>>, DefaultQueries(d)}

\* tools.py:170-222
search_web_results ==
    {<<>>, <<WebResult(PageUrl)>>, <<WebResult("")>>}

\* tools.py:225-268  links of the page, each once
extract_github_links_results ==
    {<<>>, <<UrlA>>, <<UrlAliasA, UrlGone>>}

\* what each tool returns when its call of the network or of the model
\* fails: tools.py:328-331, 63-66, 394-401, 219-222, 265-268
generate_keywords_failure == DefaultKeywords
search_github_repositories_failureMutData == <<RepoC>>
search_github_repositories_failure == <<>>
generate_web_queries_failure(d) == DefaultQueries(d)
search_web_failure == <<>>
extract_github_links_failure == <<>>

\* the repositories the API knows, by the URL asked for
KnownRepo(u) ==
    CASE u = UrlA -> RepoA
      [] u = UrlAliasA -> RepoA
      [] u = UrlB -> RepoB
      [] u = UrlC -> RepoC
      [] OTHER -> RepoA
IsKnownUrl(u) == u \in {UrlA, UrlAliasA, UrlB, UrlC}

\* tools.py:69-118  get_repo_details: {} on any failure, else the record
\* with url = data['html_url'].  `up` says whether the API answers.
EmptyDetails == [empty |-> TRUE, repo |-> RepoA]
get_repo_details(repo_url, up) ==
    IF up /\ IsKnownUrl(repo_url)
    THEN [empty |-> FALSE, repo |-> KnownRepo(repo_url)]
    ELSE EmptyDetails

\* round(1000 * ln(n)) for the numbers of the model
LnMilli(n) ==
    CASE n = 1 -> 0
      [] n = 6 -> 1792
      [] n = 11 -> 2398
      [] n = 51 -> 3932
      [] n = 101 -> 4615
      [] n = 501 -> 6217
      [] OTHER -> 0

\* tools.py:138-155  recency_score, in hundredths
RecencyPctMutStrict(pushed_at) ==
    IF pushed_at = PushedEmpty THEN 10
    ELSE IF pushed_at < 30 THEN 100
    ELSE IF pushed_at < 180 THEN 80
    ELSE IF pushed_at < 365 THEN 50
    ELSE IF pushed_at < 730 THEN 20
    ELSE 5
RecencyPct(pushed_at) ==
    IF pushed_at = PushedEmpty THEN 10
    ELSE IF pushed_at <= 30 THEN 100
    ELSE IF pushed_at <= 180 THEN 80
    ELSE IF pushed_at <= 365 THEN 50
    ELSE IF pushed_at <= 730 THEN 20
    ELSE 5

\* tools.py:121-163  the score, times 10^6; strptime raising on a timestamp
\* it cannot parse is caught by the except, which returns 0.0
calculate_repo_score(repo) ==
    IF repo.pushed_at = PushedBad THEN 0
    ELSE (7 * LnMilli(repo.stars + 1) + 3 * LnMilli(repo.forks + 1))
         * RecencyPct(repo.pushed_at)

\* tools.py:481-504  the report generate_final_report builds itself when the
\* model call fails: the url and stars of the first five repositories
ReportLine(repo) == [url |-> repo.url, stars |-> repo.stars]
FallbackReportMutNoStars(repos) ==
    [kind |-> "fallback",
     repos |-> [i \in 1..Min(ReportTopN, Len(repos)) |->
                   [url |-> repos[i].url, stars |-> 0]]]
FallbackReport(repos) ==
    [kind |-> "fallback",
     repos |-> [i \in 1..Min(ReportTopN, Len(repos)) |-> ReportLine(repos[i])]]

\* tools.py:404-504  generate_final_report: the model's text (which may be
\* empty) or the fallback report; it raises nothing
generate_final_report_results(repos) ==
    {StrLlmReport, StrEmpty, FallbackReport(repos)}

(***************************************************************************)
(* The Response Interpreter.  A parsed JSON value is                       *)
(*   t "obj":  an object with the keys `keys`; action and params are the   *)
(*             values of its keys "action" and "params";                   *)
(*   t "list", "str": a list or a string; has_action says whether          *)
(*             `"action" in value` is true; truthy whether it is non-empty;*)
(*   t "num":  a number; truthy whether it is not 0;                       *)
(*   t "null": None.                                                       *)
(* A text is described by what the extraction methods find in it:          *)
(*   form "json":      one of the methods 1-4 parses the JSON document val *)
(*                     out of the cleaned text;                            *)
(*   form "fragments": no method 1-4 parses it, and the patterns of        *)
(*                     method 5 find "action": "<val.action>" (and the     *)
(*                     params object val.params when "params" is a key);   *)
(*   form "prose":     no method 1-5 finds anything.                       *)
(***************************************************************************)
JObj(keys, action, params) ==
    [t |-> "obj", keys |-> keys, action |-> action, params |-> params,
     truthy |-> keys # {}, has_action |-> "action" \in keys]
JEmptyObj == JObj({}, "", EmptyParams)
JOther(t, truthy, has_action) ==
    [t |-> t, keys |-> {}, action |-> "", params |-> EmptyParams,
     truthy |-> truthy, has_action |-> has_action]
\* method 1..5 found nothing
NoParse == JOther("noparse", FALSE, FALSE)

Text(form, val) == [form |-> form, val |-> val]
ProseText == Text("prose", JEmptyObj)

\* agent.py:769-806  methods 1 to 4: json.loads of the whole cleaned text or
\* of a span of it; the value is returned whatever it is
ParseWhole(text) == IF text.form = "json" THEN text.val ELSE NoParse

\* agent.py:808-839  method 5: the patterns; the result is always an object
\* with the three keys
ParseFragments(text) ==
    IF text.form = "fragments"
    THEN JObj({"action", "params", "reasoning"}, text.val.action,
              IF "params" \in text.val.keys THEN text.val.params ELSE EmptyParams)
    ELSE NoParse

\* agent.py:841-856  method 6: the transition hard-coded on self.last_action
ParseHeuristicMutNone(last) == NoParse
ParseHeuristicMutKeywordsOnly(last) ==
    IF last = "GENERATE_KEYWORDS"
    THEN JObj({"action", "params", "reasoning"}, "SEARCH_GITHUB", EmptyParams)
    ELSE NoParse
ParseHeuristicMutScores(last) ==
    IF last = "GENERATE_KEYWORDS"
    THEN JObj({"action", "params", "reasoning"}, "SEARCH_GITHUB", EmptyParams)
    ELSE IF last = "SEARCH_GITHUB"
    THEN JObj({"action", "params", "reasoning"}, "CALCULATE_SCORES", EmptyParams)
    ELSE IF last = "CALCULATE_SCORES"
    THEN JObj({"action", "params", "reasoning"}, "GENERATE_REPORT", EmptyParams)
    ELSE NoParse
ParseHeuristic(last) ==
    IF last = "GENERATE_KEYWORDS"
    THEN JObj({"action", "params", "reasoning"}, "SEARCH_GITHUB", EmptyParams)
    ELSE IF last = "SEARCH_GITHUB"
    THEN JObj({"action", "params", "reasoning"}, "CALCULATE_SCORES", EmptyParams)
    ELSE NoParse

\* agent.py:752-860  _try_parse_json_from_llm_response
try_parse_json_from_llm_responseMutHeuristicFirst(text, last) ==
    IF ParseHeuristic(last) # NoParse THEN ParseHeuristic(last)
    ELSE IF ParseWhole(text) # NoParse THEN ParseWhole(text)
    ELSE IF ParseFragments(text) # NoParse THEN ParseFragments(text)
    ELSE JEmptyObj
try_parse_json_from_llm_response(text, last) ==
    IF ParseWhole(text) # NoParse THEN ParseWhole(text)
    ELSE IF ParseFragments(text) # NoParse THEN ParseFragments(text)
    ELSE IF ParseHeuristic(last) # NoParse THEN ParseHeuristic(last)
    ELSE JEmptyObj

(***************************************************************************)
(* The text of a reply as the interpreter reads it: a sequence of pieces.  *)
(*   "fence":    the three backquotes of a code fence;                     *)
(*   "jsonword": the letters json (after a fence: the marker ```json);     *)
(*   "nl":       white space;                                              *)
(*   "prose":    words without brace and without quote;                    *)
(*   "doc":      a JSON document, val (an object is written with "action"  *)
(*               as its first key when it has one);                        *)
(*   "doubled":  the JSON object val written with every brace doubled;     *)
(*   "broken":   the object val, which has the key "action", written with  *)
(*               a comma before its closing brace (no valid JSON);         *)
(*   "junk":     braces around words: no JSON, no "action" pattern.        *)
(* A list holds no object, and the texts of InterpBodies never put a list  *)
(* or a string that holds "action" next to an object.                      *)
(***************************************************************************)
Piece(k, val) == [k |-> k, val |-> val]
Fence == Piece("fence", JEmptyObj)
JsonWord == Piece("jsonword", JEmptyObj)
Newline == Piece("nl", JEmptyObj)
Prose == Piece("prose", JEmptyObj)
Doc(val) == Piece("doc", val)
Doubled(val) == Piece("doubled", val)
Broken(val) == Piece("broken", val)
Junk == Piece("junk", JEmptyObj)

\* agent.py:767  text.replace('```json', '').replace('```', '')
RECURSIVE DropFenceJson(_)
DropFenceJson(text) ==
    IF Len(text) = 0 THEN <<>>
    ELSE IF Len(text) >= 2 /\ text[1] = Fence /\ text[2] = JsonWord
    THEN DropFenceJson(SubSeq(text, 3, Len(text)))
    ELSE <<Head(text)>> \o DropFenceJson(Tail(text))
CleanMutJsonOnly(text) == DropFenceJson(text)
Clean(text) == SelectSeq(DropFenceJson(text), LAMBDA p : p # Fence)

\* what json.loads skips around a document
Significant(c) == SelectSeq(c, LAMBDA p : p.k # "nl")
\* the pieces that hold braces; an object without nested braces; the pieces
\* in which the pattern "action" is found
HasBraces(p) ==
    p.k \in {"doubled", "broken", "junk"} \/ (p.k = "doc" /\ p.val.t = "obj")
IsFlat(val) == ~("params" \in val.keys /\ val.params.kind = "dict")
HasActionPattern(p) ==
    p.k \in {"doc", "doubled", "broken"} /\ p.val.t = "obj"
    /\ "action" \in p.val.keys

\* agent.py:769-775  method 1: json.loads(cleaned_text)
LoadsWhole(c) ==
    IF Len(Significant(c)) = 1 /\ Significant(c)[1].k = "doc"
    THEN Significant(c)[1].val ELSE NoParse

\* agent.py:777-786  method 2: json.loads of the span from the first { to
\* the last }
LoadsBraceSpan(c) ==
    LET braces == SelectSeq(c, HasBraces)
    IN  IF Len(braces) = 1 /\ braces[1].k = "doc" THEN braces[1].val
        ELSE NoParse

\* agent.py:788-797  method 3: json.loads of the first match of
\* \{[^{]*"action"[^}]*\}, which ends at the first } after "action"
LoadsActionObject(c) ==
    LET found == SelectSeq(c, HasActionPattern)
    IN  IF Len(found) > 0 /\ found[1].k \in {"doc", "doubled"}
           /\ IsFlat(found[1].val)
        THEN found[1].val ELSE NoParse

\* agent.py:799-806  method 4: json.loads after {{ -> { and }} -> }
LoadsUndoubled(c) ==
    IF Len(Significant(c)) = 1 /\ Significant(c)[1].k = "doubled"
    THEN Significant(c)[1].val ELSE NoParse

\* agent.py:808-839  what the patterns of method 5 find: the action of the
\* first "action": "...", the first "params": {...}
FindFragments(c) ==
    LET found == SelectSeq(c, HasActionPattern)
        withParams == SelectSeq(c, LAMBDA p : HasBraces(p) /\ ~IsFlat(p.val))
    IN  IF Len(found) = 0 THEN NoParse
        ELSE IF Len(withParams) > 0
        THEN JObj({"action", "params"}, found[1].val.action,
                  withParams[1].val.params)
        ELSE JObj({"action"}, found[1].val.action, EmptyParams)

\* agent.py:767-839  what the methods find in a text, in their order
Describe(text) ==
    LET c == Clean(text)
    IN  IF LoadsWhole(c) # NoParse THEN Text("json", LoadsWhole(c))
        ELSE IF LoadsBraceSpan(c) # NoParse THEN Text("json", LoadsBraceSpan(c))
        ELSE IF LoadsActionObject(c) # NoParse
        THEN Text("json", LoadsActionObject(c))
        ELSE IF LoadsUndoubled(c) # NoParse THEN Text("json", LoadsUndoubled(c))
        ELSE IF FindFragments(c) # NoParse THEN Text("fragments", FindFragments(c))
        ELSE ProseText

\* agent.py:752-860  the interpreter on the text of a reply
parse_llm_response(text, last) ==
    try_parse_json_from_llm_response(Describe(text), last)

(***************************************************************************)
(* The Decision Engine.  Its result is                                     *)
(*   kind "pair":  the tuple (action, params) it returned;                 *)
(*   kind "none":  it returned None (the function ended without a return); *)
(*   kind "raise": an exception left it.                                   *)
(***************************************************************************)
Pair(action, params) == [kind |-> "pair", action |-> action, params |-> params]
ReturnedNone == [kind |-> "none", action |-> NoAction, params |-> EmptyParams]
Raised(exc) == [kind |-> "raise", action |-> exc, params |-> EmptyParams]

\* agent.py:655-657  ', '.join(keywords[:5]) raises TypeError on an item
\* that is no str; nothing else in _format_state_summary raises
format_state_summary_raises(st) ==
    \E i \in 1..Min(5, Len(st.keywords)) : st.keywords[i] \in NonStr

\* agent.py:710-718  `if params: ... params.items()` raises AttributeError
\* on a truthy params that is no mapping
format_history_summary_raises(h) ==
    \E i \in 1..Len(h) : ParamsTruthy(h[i].params) /\ ~IsMapping(h[i].params)

\* agent.py:361-394  the decision tree
DefaultDecisionMutOrder(st) ==
    IF Len(st.keywords) = 0
    THEN Pair("GENERATE_KEYWORDS", EmptyParams)
    ELSE IF Len(st.web_queries) = 0 /\ Len(st.keywords) > 0
    THEN Pair("GENERATE_WEB_QUERIES", EmptyParams)
    ELSE IF Len(st.github_repos) = 0 /\ Len(st.keywords) > 0
    THEN Pair("SEARCH_GITHUB", KeywordsParams(st.keywords))
    ELSE IF Len(st.ranked_repos) > 0 /\ IsEmptyStr(st.final_report)
    THEN Pair("GENERATE_REPORT", EmptyParams)
    ELSE Pair("COMPLETE", EmptyParams)
DefaultDecisionMutReportFirst(st) ==
    IF Len(st.ranked_repos) > 0 /\ IsEmptyStr(st.final_report)
    THEN Pair("GENERATE_REPORT", EmptyParams)
    ELSE IF Len(st.keywords) = 0
    THEN Pair("GENERATE_KEYWORDS", EmptyParams)
    ELSE Pair("COMPLETE", EmptyParams)
DefaultDecisionMutEarlyComplete(st) ==
    IF Len(st.keywords) = 0
    THEN Pair("GENERATE_KEYWORDS", EmptyParams)
    ELSE IF Len(st.github_repos) = 0 /\ Len(st.keywords) > 0
    THEN Pair("SEARCH_GITHUB", KeywordsParams(st.keywords))
    ELSE IF Len(st.web_queries) = 0 /\ Len(st.keywords) > 0
    THEN Pair("GENERATE_WEB_QUERIES", EmptyParams)
    ELSE IF Len(st.web_search_results) = 0 /\ Len(st.web_queries) > 0
    THEN Pair("SEARCH_WEB", QueryParams(st.web_queries[1]))
    ELSE IF Len(st.web_search_results) > 0 /\ Len(st.candidate_repos) = 0
    THEN IF st.web_search_results[1].has_url
         THEN Pair("EXTRACT_GITHUB_LINKS", UrlParams(st.web_search_results[1].url))
         ELSE ReturnedNone
    ELSE IF (Len(st.github_repos) > 0 \/ Len(st.candidate_repos) > 0)
            /\ Len(st.ranked_repos) = 0
    THEN Pair("CALCULATE_SCORES", EmptyParams)
    ELSE Pair("COMPLETE", EmptyParams)
DefaultDecision(st) ==
    IF Len(st.keywords) = 0
    THEN Pair("GENERATE_KEYWORDS", EmptyParams)
    ELSE IF Len(st.github_repos) = 0 /\ Len(st.keywords) > 0
    THEN Pair("SEARCH_GITHUB", KeywordsParams(st.keywords))
    ELSE IF Len(st.web_queries) = 0 /\ Len(st.keywords) > 0
    THEN Pair("GENERATE_WEB_QUERIES", EmptyParams)
    ELSE IF Len(st.web_search_results) = 0 /\ Len(st.web_queries) > 0
    THEN Pair("SEARCH_WEB", QueryParams(st.web_queries[1]))
    ELSE IF Len(st.web_search_results) > 0 /\ Len(st.candidate_repos) = 0
    THEN IF st.web_search_results[1].has_url
         THEN Pair("EXTRACT_GITHUB_LINKS", UrlParams(st.web_search_results[1].url))
         ELSE ReturnedNone
    ELSE IF (Len(st.github_repos) > 0 \/ Len(st.candidate_repos) > 0)
            /\ Len(st.ranked_repos) = 0
    THEN Pair("CALCULATE_SCORES", EmptyParams)
    ELSE IF Len(st.ranked_repos) > 0 /\ IsEmptyStr(st.final_report)
    THEN Pair("GENERATE_REPORT", EmptyParams)
    ELSE Pair("COMPLETE", EmptyParams)

\* agent.py:346-351  the validation of the model's decision
DecisionAcceptedMutAll(action, st) == TRUE
DecisionAcceptedMutSearched(action, st) ==
    action # "GENERATE_REPORT" \/ Len(st.github_repos) > 0
DecisionAcceptedMutInverted(action, st) ==
    action = "GENERATE_REPORT" \/ Len(st.ranked_repos) > 0
DecisionAccepted(action, st) ==
    action # "GENERATE_REPORT" \/ Len(st.ranked_repos) > 0

\* agent.py:341-353  the model path: the pair it returns, or NoPair
\* when control falls through to the tree.  `"action" in decision` raises
\* on a number and decision.get on a list or a string; both are caught by
\* the except of line 355.
NoPair == [kind |-> "fall", action |-> NoAction, params |-> EmptyParams]
ModelPath(decision, st) ==
    IF ~decision.truthy THEN NoPair
    ELSE IF decision.t = "num" THEN NoPair
    ELSE IF ~decision.has_action THEN NoPair
    ELSE IF decision.t # "obj" THEN NoPair
    ELSE IF DecisionAccepted(decision.action, st)
         THEN Pair(decision.action,
                   IF "params" \in decision.keys THEN decision.params
                   ELSE EmptyParams)
         ELSE NoPair

\* a reply of the model: the call raised, or it returned a text
ModelRaises == [raises |-> TRUE, text |-> ProseText]
ModelSays(text) == [raises |-> FALSE, text |-> text]

\* agent.py:193-394  _decide_next_action(domain, state), which also reads
\* self.history and, through the interpreter, self.last_action
decide_next_action(st, h, last, reply) ==
    IF format_state_summary_raises(st) THEN Raised("TypeError")
    ELSE IF format_history_summary_raises(h) THEN Raised("AttributeError")
    ELSE IF reply.raises THEN DefaultDecision(st)
    ELSE LET decision == try_parse_json_from_llm_response(reply.text, last)
             chosen == ModelPath(decision, st)
         IN  IF chosen # NoPair THEN chosen ELSE DefaultDecision(st)

(***************************************************************************)
(* WorkState, the dispatch and the fold.                                   *)
(***************************************************************************)
\* agent.py:98-106  the state run() creates ("web_queries" is no key of it:
\* state.get("web_queries") is None until the action writes it)
InitState(d) ==
    [domain |-> d, keywords |-> <<>>, github_repos |-> <<>>,
     web_queries |-> <<>>, web_search_results |-> <<>>,
     candidate_repos |-> <<>>, ranked_repos |-> <<>>,
     final_report |-> StrEmpty]

\* a result of _execute_action: None, a list, the dict of get_repo_details
\* or a string
ResNone == [t |-> "none"]
ResList(l) == [t |-> "list", v |-> l]
ResDict(d) == [t |-> "dict", v |-> d]
ResStr(s) == [t |-> "str", v |-> s]

\* Python's truth test of a result
Truthy(r) ==
    CASE r.t = "none" -> FALSE
      [] r.t = "list" -> Len(r.v) > 0
      [] r.t = "dict" -> ~r.v.empty
      [] r.t = "str" -> ~IsEmptyStr(r.v)

\* agent.py:724-750  _summarize_result: the shape and the size of the result
summarize_result(r) ==
    CASE r.t = "none" -> [shape |-> "none", n |-> 0]
      [] r.t = "list" -> [shape |-> "list", n |-> Len(r.v)]
      [] r.t = "dict" -> [shape |-> "dict", n |-> IF r.v.empty THEN 0 ELSE 1]
      [] r.t = "str" -> [shape |-> "str", n |-> IF IsEmptyStr(r.v) THEN 0 ELSE 1]

RECURSIVE HasUrl(_, _)
HasUrl(repos, u) ==
    IF Len(repos) = 0 THEN FALSE
    ELSE Head(repos).url = u \/ HasUrl(Tail(repos), u)

\* agent.py:467-492  the candidates from the search results: an item
\* without html_url is skipped
FromSearch(github_repos) == SelectSeq(github_repos, LAMBDA r : r.url # "")

\* agent.py:495-515  the candidates from the URL pool: a URL already among
\* the candidates is skipped, the others are asked of the API
RECURSIVE FromPool(_, _, _)
FromPool(cands, urls, up) ==
    IF Len(urls) = 0 THEN cands
    ELSE LET u == Head(urls)
             details == get_repo_details(u, up)
         IN  IF HasUrl(cands, u) THEN FromPool(cands, Tail(urls), up)
             ELSE IF ~details.empty
             THEN FromPool(Append(cands, details.repo), Tail(urls), up)
             ELSE FromPool(cands, Tail(urls), up)

\* agent.py:524-532  each candidate with its score
WithScores(cands) ==
    [i \in 1..Len(cands) |->
        [cands[i] EXCEPT !.score = calculate_repo_score(cands[i])]]

\* agent.py:535  list.sort(key=score, reverse=True): stable, so records of
\* equal score keep their order
RECURSIVE InsertByScore(_, _)
InsertByScore(sorted, r) ==
    IF Len(sorted) = 0 THEN <<r>>
    ELSE IF Head(sorted).score >= r.score
    THEN <<Head(sorted)>> \o InsertByScore(Tail(sorted), r)
    ELSE <<r>> \o sorted
SortByScoreMutNone(repos) == repos
RECURSIVE SortByScore(_)
SortByScore(repos) ==
    IF Len(repos) = 0 THEN <<>>
    ELSE InsertByScore(SortByScore(SubSeq(repos, 1, Len(repos) - 1)),
                       repos[Len(repos)])

\* agent.py:461-539  CALCULATE_SCORES
calculate_scoresMutAccumulate(st, up) ==
    LET cands == FromPool(FromSearch(st.github_repos) \o st.ranked_repos,
                          st.candidate_repos, up)
        ranked == SortByScore(WithScores(cands))
    IN  IF Len(cands) = 0 THEN <<>>
        ELSE SubSeq(ranked, 1, Min(TopN, Len(ranked)))
calculate_scores(st, up) ==
    LET cands == FromPool(FromSearch(st.github_repos), st.candidate_repos, up)
        ranked == SortByScore(WithScores(cands))
    IN  IF Len(cands) = 0 THEN <<>>
        ELSE SubSeq(ranked, 1, Min(TopN, Len(ranked)))

\* agent.py:439-444  the first non-empty url of the web results, or ""
RECURSIVE FirstUrl(_)
FirstUrl(results) ==
    IF Len(results) = 0 THEN ""
    ELSE IF Head(results).url # "" THEN Head(results).url
    ELSE FirstUrl(Tail(results))

\* What the collaborators answer during one dispatch: only the answer
\* the action asks for is chosen, the others are never read.  `failed` says
\* that the call of the tool failed and the tool returned its failure value;
\* `up` that the GitHub API answers the detail fetches; report "fallback"
\* that the model call of the Report Composer failed.
QuietEnv ==
    [keywords |-> <<>>, repos |-> <<>>, queries |-> <<>>, web |-> <<>>,
     links |-> <<>>, up |-> FALSE, report |-> "empty", failed |-> FALSE]
EnvFor(action, d) ==
    CASE action = "GENERATE_KEYWORDS" ->
            {[QuietEnv EXCEPT !.keywords = k] : k \in generate_keywords_results}
            \cup {[QuietEnv EXCEPT !.keywords = generate_keywords_failure,
                                   !.failed = TRUE]}
      [] action = "SEARCH_GITHUB" ->
            {[QuietEnv EXCEPT !.repos = r] :
                r \in search_github_repositories_results}
            \cup {[QuietEnv EXCEPT !.repos = search_github_repositories_failure,
                                   !.failed = TRUE]}
      [] action = "GENERATE_WEB_QUERIES" ->
            {[QuietEnv EXCEPT !.queries = q] :
                q \in generate_web_queries_results(d)}
            \cup {[QuietEnv EXCEPT !.queries = generate_web_queries_failure(d),
                                   !.failed = TRUE]}
      [] action = "SEARCH_WEB" ->
            {[QuietEnv EXCEPT !.web = w] : w \in search_web_results}
            \cup {[QuietEnv EXCEPT !.web = search_web_failure, !.failed = TRUE]}
      [] action = "EXTRACT_GITHUB_LINKS" ->
            {[QuietEnv EXCEPT !.links = l] : l \in extract_github_links_results}
            \cup {[QuietEnv EXCEPT !.links = extract_github_links_failure,
                                   !.failed = TRUE]}
      [] action \in {"GET_REPO_DETAILS", "CALCULATE_SCORES"} ->
            {[QuietEnv EXCEPT !.up = u] : u \in BOOLEAN}
      [] action = "GENERATE_REPORT" ->
            {[QuietEnv EXCEPT !.report = c] : c \in {"llm", "empty", "fallback"}}
      [] OTHER -> {QuietEnv}

ReportOf(choice, repos) ==
    CASE choice = "llm" -> StrLlmReport
      [] choice = "empty" -> StrEmpty
      [] OTHER -> FallbackReport(repos)

\* agent.py:396-562  _execute_action: params.get raises on a value that is
\* no mapping, and the except of line 560 returns None
execute_action(action, params, st, env) ==
    CASE action = "GENERATE_KEYWORDS" -> ResList(env.keywords)
      [] action = "SEARCH_GITHUB" ->
            IF ~IsMapping(params) THEN ResNone
            ELSE LET keywords == IF "keywords" \in params.keys
                                 THEN params.keywords ELSE st.keywords
                 IN  IF Len(keywords) = 0 THEN ResList(<<>>)
                     ELSE ResList(env.repos)
      [] action = "GENERATE_WEB_QUERIES" -> ResList(env.queries)
      [] action = "SEARCH_WEB" ->
            IF ~IsMapping(params) THEN ResNone ELSE ResList(env.web)
      [] action = "EXTRACT_GITHUB_LINKS" ->
            IF ~IsMapping(params) THEN ResNone
            ELSE LET given == IF "url" \in params.keys THEN params.url ELSE ""
                     url == IF given = "" THEN FirstUrl(st.web_search_results)
                            ELSE given
                 IN  IF url = "" THEN ResList(<<>>) ELSE ResList(env.links)
      [] action = "GET_REPO_DETAILS" ->
            IF ~IsMapping(params) THEN ResNone
            ELSE LET repo_url == IF "repo_url" \in params.keys
                                 THEN params.repo_url ELSE ""
                 IN  IF repo_url = "" THEN ResDict(EmptyDetails)
                     ELSE ResDict(get_repo_details(repo_url, env.up))
      [] action = "CALCULATE_SCORES" -> ResList(calculate_scores(st, env.up))
      [] action = "GENERATE_REPORT" ->
            IF Len(st.ranked_repos) = 0 THEN ResStr(StrNoRanked)
            ELSE ResStr(ReportOf(env.report, st.ranked_repos))
      [] OTHER -> ResNone

\* agent.py:495-515  whether a detail fetch of CALCULATE_SCORES failed: the
\* URLs are fetched as FromPool fetches them
RECURSIVE PoolFetchFailed(_, _, _)
PoolFetchFailed(cands, urls, up) ==
    IF Len(urls) = 0 THEN FALSE
    ELSE LET u == Head(urls)
             details == get_repo_details(u, up)
         IN  IF HasUrl(cands, u) THEN PoolFetchFailed(cands, Tail(urls), up)
             ELSE IF details.empty THEN TRUE
             ELSE PoolFetchFailed(Append(cands, details.repo), Tail(urls), up)

\* agent.py:410-562  whether the dispatch called a collaborator and the call
\* failed (a network error, an API error, a failure of the model inside a
\* tool); no call is made when the parameters stop the dispatch before it
CallFailed(action, params, st, env) ==
    CASE action \in {"GENERATE_KEYWORDS", "GENERATE_WEB_QUERIES"} -> env.failed
      [] action = "SEARCH_GITHUB" ->
            /\ IsMapping(params)
            /\ Len(IF "keywords" \in params.keys THEN params.keywords
                   ELSE st.keywords) > 0
            /\ env.failed
      [] action = "SEARCH_WEB" -> IsMapping(params) /\ env.failed
      [] action = "EXTRACT_GITHUB_LINKS" ->
            /\ IsMapping(params)
            /\ (IF "url" \in params.keys /\ params.url # "" THEN params.url
                ELSE FirstUrl(st.web_search_results)) # ""
            /\ env.failed
      [] action = "GET_REPO_DETAILS" ->
            /\ IsMapping(params)
            /\ "repo_url" \in params.keys /\ params.repo_url # ""
            /\ get_repo_details(params.repo_url, env.up).empty
      [] action = "CALCULATE_SCORES" ->
            PoolFetchFailed(FromSearch(st.github_repos), st.candidate_repos,
                            env.up)
      [] action = "GENERATE_REPORT" ->
            Len(st.ranked_repos) > 0 /\ env.report = "fallback"
      [] OTHER -> FALSE

RECURSIVE Member(_, _)
Member(seq, x) ==
    IF Len(seq) = 0 THEN FALSE ELSE Head(seq) = x \/ Member(Tail(seq), x)

\* agent.py:597-605  the links not yet in the pool, appended
MergeLinksMutAll(pool, links) == pool \o links
RECURSIVE MergeLinks(_, _)
MergeLinks(pool, links) ==
    IF Len(links) = 0 THEN pool
    ELSE IF Head(links) # "" /\ ~Member(pool, Head(links))
    THEN MergeLinks(Append(pool, Head(links)), Tail(links))
    ELSE MergeLinks(pool, Tail(links))

\* agent.py:564-637  _update_state
update_stateMutOverwrite(st, action, result) ==
    IF action = "GENERATE_KEYWORDS" /\ result.t = "list"
    THEN [st EXCEPT !.keywords = result.v]
    ELSE IF action = "GENERATE_REPORT" /\ result.t = "str"
    THEN [st EXCEPT !.final_report = result.v]
    ELSE st
update_stateMutTwoFields(st, action, result) ==
    IF Truthy(result) /\ action = "SEARCH_GITHUB"
    THEN [st EXCEPT !.github_repos = result.v, !.ranked_repos = <<>>]
    ELSE st
update_stateMutReplacePool(st, action, result) ==
    IF ~Truthy(result) THEN st
    ELSE CASE action = "GENERATE_KEYWORDS" -> [st EXCEPT !.keywords = result.v]
           [] action = "SEARCH_GITHUB" -> [st EXCEPT !.github_repos = result.v]
           [] action = "GENERATE_WEB_QUERIES" ->
                 [st EXCEPT !.web_queries = result.v]
           [] action = "SEARCH_WEB" ->
                 [st EXCEPT !.web_search_results = result.v]
           [] action = "EXTRACT_GITHUB_LINKS" ->
                 [st EXCEPT !.candidate_repos = MergeLinks(<<>>, result.v)]
           [] action = "GET_REPO_DETAILS" ->
                 [st EXCEPT !.candidate_repos = <<result.v.repo.url>>]
           [] action = "CALCULATE_SCORES" -> [st EXCEPT !.ranked_repos = result.v]
           [] action = "GENERATE_REPORT" -> [st EXCEPT !.final_report = result.v]
           [] OTHER -> st
update_state(st, action, result) ==
    IF ~Truthy(result) THEN st
    ELSE CASE action = "GENERATE_KEYWORDS" -> [st EXCEPT !.keywords = result.v]
           [] action = "SEARCH_GITHUB" -> [st EXCEPT !.github_repos = result.v]
           [] action = "GENERATE_WEB_QUERIES" ->
                 [st EXCEPT !.web_queries = result.v]
           [] action = "SEARCH_WEB" ->
                 [st EXCEPT !.web_search_results = result.v]
           [] action = "EXTRACT_GITHUB_LINKS" ->
                 [st EXCEPT !.candidate_repos = MergeLinks(@, result.v)]
           [] action = "GET_REPO_DETAILS" ->
                 [st EXCEPT !.candidate_repos =
                     IF Member(@, result.v.repo.url) THEN @
                     ELSE Append(@, result.v.repo.url)]
           [] action = "CALCULATE_SCORES" -> [st EXCEPT !.ranked_repos = result.v]
           [] action = "GENERATE_REPORT" -> [st EXCEPT !.final_report = result.v]
           [] OTHER -> st

(***************************************************************************)
(* run(): the state machine.                                               *)
(***************************************************************************)
\* The replies of the model a run is checked with.  The decision whose
\* action is NoAction is the object {"action": null, ...}: decision.get gives
\* None, which agent.py:347-349 return as the action.
JDecision(action, params) == JObj({"action", "params", "reasoning"}, action, params)
RunTexts ==
    {Text("json", JDecision("COMPLETE", EmptyParams)),
     Text("json", JDecision("GENERATE_REPORT", EmptyParams)),
     Text("json", JDecision("DO_NOTHING", EmptyParams)),
     Text("json", JDecision(NoAction, EmptyParams)),
     Text("json", JDecision("CALCULATE_SCORES", EmptyParams)),
     Text("json", JDecision("SEARCH_WEB", ListParams)),
     Text("json", JDecision("GET_REPO_DETAILS", RepoUrlParams(UrlB))),
     Text("json", JObj({"reasoning"}, "", EmptyParams)),
     Text("fragments", JObj({"action"}, "GENERATE_REPORT", EmptyParams)),
     ProseText}
RunReplies == {ModelRaises} \cup {ModelSays(t) : t \in RunTexts}

NoDecision == [kind |-> "nodecision", action |-> NoAction, params |-> EmptyParams]
\* obs: what the last step did.  decisions and dispatches count the calls of
\* _decide_next_action and _execute_action of the current run; called says
\* whether the step called a collaborator; failed whether a collaborator
\* call of the step failed; up whether the GitHub API answered the detail
\* fetches of the step.
Obs(step, decision, decisions, dispatches, called) ==
    [step |-> step, decision |-> decision, decisions |-> decisions,
     dispatches |-> dispatches, called |-> called, failed |-> FALSE,
     up |-> FALSE]
ObsDispatch(decision, decisions, dispatches, called, failed, up) ==
    [Obs("dispatch", decision, decisions, dispatches, called)
        EXCEPT !.failed = failed, !.up = up]

NoInp == [st |-> InitState(""), h |-> <<>>, last |-> NoAction,
          reply |-> ModelRaises]

Init ==
    /\ pc = "idle"
    /\ domain = ""
    /\ state = InitState("")
    /\ history = <<>>          \* agent.py:68
    /\ last_action = NoAction  \* agent.py:69
    /\ iterations = 0
    /\ ret = NoReturn
    /\ obs = Obs("init", NoDecision, 0, 0, FALSE)
    /\ replies = 0
    /\ empties = 0
    /\ inp = NoInp
    /\ out = NoDecision

\* agent.py:148-150  `except Exception` catches every exception of the try
CaughtMutNarrow(exc) == exc = "LLMError"
CaughtMutNothing(exc) == FALSE
CaughtMutNotPlanning(exc) == exc # "LLMError"
Caught(exc) == TRUE

\* agent.py:112  the condition of the while loop
LoopGuard(i) == i < max_iterations

\* agent.py:118  the test of the break
IsCompleteMutNever(action) == FALSE
IsCompleteMutUnknown(action) == action \notin (ActionEnum \ {"COMPLETE"})
IsComplete(action) == action = "COMPLETE"

\* agent.py:146  state.get("final_report", <message>): the key is always
\* there, so the default is never used
ReturnValue(st) == st.final_report

\* agent.py:83-90  run(domain) is called: the history of the instance is
\* cleared; the locals of an earlier call are gone
Start ==
    /\ pc \in {"idle", "done"}
    /\ \E d \in Domains : domain' = d /\ state' = InitState(d)
    /\ history' = <<>>
    /\ last_action' = NoAction
    /\ iterations' = 0
    /\ ret' = NoReturn
    /\ obs' = Obs("start", NoDecision, 0, 0, FALSE)
    /\ replies' = 0
    /\ empties' = 0
    /\ pc' = "plan"
    /\ UNCHANGED <<inp, out>>

\* an exception inside the try of run(): the except returns the message
Fail(exc, step, decision) ==
    /\ pc' = IF Caught(exc) THEN "done" ELSE "raised"
    /\ ret' = IF Caught(exc) THEN StrError ELSE NoReturn
    /\ obs' = Obs(step, decision, obs.decisions + (IF step = "decide" THEN 1 ELSE 0),
                  obs.dispatches, FALSE)

\* agent.py:92-106  the planning call returns, and the state is created
PlanOk ==
    /\ pc = "plan"
    /\ state' = InitState(domain)
    /\ iterations' = 0
    /\ pc' = "loop"
    /\ obs' = Obs("plan", NoDecision, 0, 0, TRUE)
    /\ UNCHANGED <<domain, history, last_action, ret, replies, empties, inp, out>>

\* agent.py:94, 148-150  the planning call raises
PlanFails ==
    /\ pc = "plan"
    /\ Fail("LLMError", "plan", NoDecision)
    /\ UNCHANGED <<domain, state, history, last_action, iterations, replies,
                   empties, inp, out>>

RepliesAllowed == {r \in RunReplies : r.raises \/ replies < MaxModelReplies}
Used(reply) == IF reply.raises THEN replies ELSE replies + 1

\* agent.py:112-116, 148-150  an iteration whose decision raises (or is
\* None, which the unpacking of line 116 turns into a TypeError)
DecideFails ==
    /\ pc = "loop" /\ LoopGuard(iterations)
    /\ \E reply \in RepliesAllowed :
        \E d \in {decide_next_action(state, history, last_action, reply)} :
          /\ d.kind \in {"raise", "none"}
          /\ Fail(IF d.kind = "raise" THEN d.action ELSE "TypeError",
                  "decide", d)
          /\ replies' = IF d.kind = "raise" THEN replies ELSE Used(reply)
    /\ iterations' = iterations + 1
    /\ UNCHANGED <<domain, state, history, last_action, empties, inp, out>>

\* agent.py:112-120  an iteration whose decision is COMPLETE: break
DecideComplete ==
    /\ pc = "loop" /\ LoopGuard(iterations)
    /\ \E reply \in RepliesAllowed :
        \E d \in {decide_next_action(state, history, last_action, reply)} :
          /\ d.kind = "pair" /\ IsComplete(d.action)
          /\ obs' = Obs("decide", d, obs.decisions + 1, obs.dispatches, FALSE)
          /\ replies' = Used(reply)
    /\ iterations' = iterations + 1
    /\ pc' = "post"
    /\ UNCHANGED <<domain, state, history, last_action, ret, empties, inp, out>>

\* agent.py:127-131  the entry appended to the history
HistoryEntryMutNoParams(action, params, result) ==
    [action |-> action, params |-> EmptyParams,
     result_summary |-> summarize_result(result)]
HistoryEntry(action, params, result) ==
    [action |-> action, params |-> params,
     result_summary |-> summarize_result(result)]

\* agent.py:112-134  an iteration that dispatches the decided action, folds
\* the result into the state and appends the history entry.  `forced` says
\* that the result is empty whatever the collaborators answer.
DecideAndDispatch ==
    /\ pc = "loop" /\ LoopGuard(iterations)
    /\ \E reply \in RepliesAllowed :
        \E d \in {decide_next_action(state, history, last_action, reply)} :
          /\ d.kind = "pair" /\ ~IsComplete(d.action)
          /\ replies' = Used(reply)
          /\ \E env \in EnvFor(d.action, domain) :
              \E result \in {execute_action(d.action, d.params, state, env)} :
                \E forced \in {\A e \in EnvFor(d.action, domain) :
                        ~Truthy(execute_action(d.action, d.params, state, e))} :
                  /\ Truthy(result) \/ forced \/ empties < MaxEmptyResults
                  /\ empties' = IF Truthy(result) \/ forced THEN empties
                                ELSE empties + 1
                  /\ state' = update_state(state, d.action, result)
                  /\ history' = Append(history,
                        HistoryEntry(d.action, d.params, result))
                  /\ last_action' = d.action
                  /\ obs' = ObsDispatch(d, obs.decisions + 1,
                        obs.dispatches + 1, d.action \in ActionEnum,
                        CallFailed(d.action, d.params, state, env), env.up)
    /\ iterations' = iterations + 1
    /\ UNCHANGED <<pc, domain, ret, inp, out>>

\* agent.py:112  the condition of the while loop is false
BudgetExhausted ==
    /\ pc = "loop" /\ ~LoopGuard(iterations)
    /\ pc' = "post"
    /\ obs' = Obs("exhausted", obs.decision, obs.decisions, obs.dispatches, FALSE)
    /\ UNCHANGED <<domain, state, history, last_action, iterations, ret,
                   replies, empties, inp, out>>

\* agent.py:137  the test of the post-loop fallback
NeedsReportMutAlways(st) == Len(st.ranked_repos) > 0
NeedsReport(st) == IsEmptyStr(st.final_report) /\ Len(st.ranked_repos) > 0

\* agent.py:136-146  the report of last resort, and the return
PostLoop ==
    /\ pc = "post"
    /\ IF NeedsReport(state)
       THEN \E report \in generate_final_report_results(state.ranked_repos) :
               /\ state' = [state EXCEPT !.final_report = report]
               /\ obs' = Obs("compose", obs.decision, obs.decisions,
                             obs.dispatches, TRUE)
       ELSE /\ state' = state
            /\ obs' = Obs("return", obs.decision, obs.decisions,
                          obs.dispatches, FALSE)
    /\ ret' = ReturnValue(state')
    /\ pc' = "done"
    /\ UNCHANGED <<domain, history, last_action, iterations, replies, empties,
                   inp, out>>

Next ==
    \/ Start
    \/ PlanOk
    \/ PlanFails
    \/ DecideFails
    \/ DecideComplete
    \/ DecideAndDispatch
    \/ BudgetExhausted
    \/ PostLoop

Spec == Init /\ [][Next]_vars

\* The steps of a run in progress: the thread that called run() keeps
\* executing it.
RunStep ==
    \/ PlanOk
    \/ PlanFails
    \/ DecideFails
    \/ DecideComplete
    \/ DecideAndDispatch
    \/ BudgetExhausted
    \/ PostLoop

LiveSpec == Init /\ [][Next]_vars /\ WF_vars(RunStep)

(***************************************************************************)
(* The claims about run().                                                 *)
(***************************************************************************)
StringKinds == {"empty", "llm", "fallback", "notfound", "noranked", "error"}
LastDecisionIs(action) ==
    obs.decision.kind = "pair" /\ obs.decision.action = action

\* C1: run(domain) never raises to its caller: no run ends in the state
\* "raised", and a run that has ended has handed a string to its caller,
\* whatever failed on the way (the planning call, a decision, a dispatch).
Claim_C1 ==
    /\ pc # "raised"
    /\ pc = "done" => ret.kind \in StringKinds

\* a run in which the Decision Engine raised and run() returned the message
Witness_C1 ==
    pc = "done" /\ obs.step = "decide" /\ obs.decision.kind = "raise"
    /\ ret = StrError

\* C2: the string run() returns is never empty; when the loop ends with
\* finalReport and rankedRepos both empty, run() returns the "not found"
\* message.
Claim_C2 ==
    (pc = "done" /\ obs.step \in {"compose", "return"}) =>
        /\ ~IsEmptyStr(ret)
        /\ (IsEmptyStr(state.final_report) /\ Len(state.ranked_repos) = 0)
              => ret = StrNotFound

\* C3: a run takes at most 10 decisions and dispatches at most 10 actions,
\* and the loop is left only by a COMPLETE decision or after the 10th
\* iteration.
Claim_C3 ==
    /\ obs.decisions <= max_iterations
    /\ obs.dispatches <= max_iterations
    /\ (pc \in {"post", "done", "raised"}
        /\ obs.step \in {"decide", "exhausted", "compose", "return"})
          => LastDecisionIs("COMPLETE") \/ iterations = max_iterations

\* C4: every run that has started eventually returns, also when no decision
\* is ever COMPLETE.
Claim_C4 == (pc = "plan") ~> (pc = "done")

\* a run that returned after ten dispatches, none of its decisions COMPLETE
Witness_C4 ==
    pc = "done" /\ obs.dispatches = max_iterations
    /\ ~LastDecisionIs("COMPLETE")

\* C5: an iteration whose decision is COMPLETE ends the loop at once: it
\* calls no collaborator, dispatches nothing, and leaves the WorkState, the
\* history and last_action as they were.
Claim_C5 ==
    [][(pc = "loop" /\ obs'.step \in {"decide", "dispatch"}
        /\ obs'.decision.kind = "pair" /\ obs'.decision.action = "COMPLETE")
       => (/\ pc' = "post"
           /\ state' = state
           /\ history' = history
           /\ last_action' = last_action
           /\ obs'.dispatches = obs.dispatches
           /\ ~obs'.called)]_vars

\* the loop was left by COMPLETE after some actions had been dispatched
Witness_C5 ==
    pc = "post" /\ obs.step = "decide" /\ LastDecisionIs("COMPLETE")
    /\ Len(history) > 0 /\ Len(state.keywords) > 0

\* C9: in every state of a run, after the post-loop fallback too, a
\* non-empty finalReport implies a non-empty rankedRepos.
Claim_C9 ==
    ~IsEmptyStr(state.final_report) => Len(state.ranked_repos) > 0

\* a report was written by a dispatched GENERATE_REPORT
Witness_C9 ==
    pc = "loop" /\ obs.step = "dispatch" /\ LastDecisionIs("GENERATE_REPORT")
    /\ ~IsEmptyStr(state.final_report)

(***************************************************************************)
(* The Decision Engine alone: one call of _decide_next_action on a state,  *)
(* a history and a reply of the model drawn from the sets below.  Every    *)
(* state is one a run can build: a field is written by the action that     *)
(* owns it, rankedRepos is what CALCULATE_SCORES computes from the state,  *)
(* a report needs a ranking, and the history holds the actions that wrote  *)
(* the fields, followed by at most one dispatch that changed nothing.      *)
(***************************************************************************)
DecideDomain == "containerization"

MakeState(kw, gr, wq, wr, cr, scored, reported) ==
    LET base == [InitState(DecideDomain) EXCEPT
                    !.keywords = kw, !.github_repos = gr, !.web_queries = wq,
                    !.web_search_results = wr, !.candidate_repos = cr]
        ranked == IF scored THEN calculate_scores(base, TRUE) ELSE <<>>
    IN  [base EXCEPT !.ranked_repos = ranked,
                     !.final_report = IF reported /\ Len(ranked) > 0
                                      THEN StrLlmReport ELSE StrEmpty]

DecideStates ==
    {MakeState(x[1], x[2], x[3], x[4], x[5], x[6], x[7]) :
        x \in {<<>>, DefaultKeywords, <<"<int 7>">>}
              \X {<<>>, <<RepoB, RepoA>>, ManyRepos}
              \X {<<>>, DefaultQueries(DecideDomain)}
              \X {<<>>, <<WebResult(PageUrl)>>, <<WebResult("")>>}
              \X {<<>>, <<UrlAliasA, UrlGone>>}
              \X BOOLEAN \X BOOLEAN}

Entry(action, params, shape, n) ==
    [action |-> action, params |-> params,
     result_summary |-> [shape |-> shape, n |-> n]]
Wrote(cond, action, params, shape, n) ==
    IF cond THEN <<Entry(action, params, shape, n)>> ELSE <<>>

\* the dispatches that wrote the fields of st, in the order of the chain
HistoryOf(st) ==
    Wrote(Len(st.keywords) > 0, "GENERATE_KEYWORDS", EmptyParams, "list",
          Len(st.keywords))
    \o Wrote(Len(st.github_repos) > 0, "SEARCH_GITHUB",
             KeywordsParams(DefaultKeywords), "list", Len(st.github_repos))
    \o Wrote(Len(st.web_queries) > 0, "GENERATE_WEB_QUERIES", EmptyParams,
             "list", Len(st.web_queries))
    \o Wrote(Len(st.web_search_results) > 0, "SEARCH_WEB",
             QueryParams("best container tools"), "list",
             Len(st.web_search_results))
    \o Wrote(Len(st.candidate_repos) > 0, "EXTRACT_GITHUB_LINKS",
             UrlParams(PageUrl), "list", Len(st.candidate_repos))
    \o Wrote(Len(st.ranked_repos) > 0, "CALCULATE_SCORES", EmptyParams, "list",
             Len(st.ranked_repos))
    \o Wrote(~IsEmptyStr(st.final_report), "GENERATE_REPORT", EmptyParams,
             "str", 1)

\* a last dispatch that left the state as it was
IdleDispatches ==
    {<<>>,
     <<Entry("DO_NOTHING", NullParams, "none", 0)>>,
     <<Entry("SEARCH_WEB", ListParams, "none", 0)>>,
     <<Entry("GENERATE_KEYWORDS", EmptyParams, "list", 0)>>,
     <<Entry("SEARCH_GITHUB", EmptyParams, "list", 0)>>}

LastOf(h) == IF Len(h) = 0 THEN NoAction ELSE h[Len(h)].action

DecideTexts ==
    {Text("json", JDecision(a, EmptyParams)) : a \in ActionEnum \cup OtherActions}
    \cup {Text("fragments", JObj({"action"}, a, EmptyParams)) :
             a \in {"GENERATE_REPORT", "COMPLETE", "DO_NOTHING"}}
    \cup {Text("json", JDecision("SEARCH_WEB", ListParams)),
          Text("json", JDecision("GENERATE_REPORT", NullParams)),
          Text("json", JObj({"action"}, "GENERATE_REPORT", EmptyParams)),
          Text("json", JObj({"reasoning"}, "", EmptyParams)),
          Text("json", JEmptyObj),
          Text("json", JOther("list", TRUE, TRUE)),
          Text("json", JOther("list", TRUE, FALSE)),
          Text("json", JOther("list", FALSE, FALSE)),
          Text("json", JOther("str", TRUE, TRUE)),
          Text("json", JOther("num", TRUE, FALSE)),
          Text("json", JOther("null", FALSE, FALSE)),
          ProseText}
DecideReplies == {ModelRaises} \cup {ModelSays(t) : t \in DecideTexts}

DecideInputs ==
    {[st |-> x[1], h |-> HistoryOf(x[1]) \o x[2],
      last |-> LastOf(HistoryOf(x[1]) \o x[2]), reply |-> x[3]] :
        x \in DecideStates \X IdleDispatches \X DecideReplies}

DecideInit ==
    /\ pc = "call"
    /\ inp \in DecideInputs
    /\ out = NoDecision
    /\ domain = DecideDomain
    /\ state = inp.st
    /\ history = inp.h
    /\ last_action = inp.last
    /\ iterations = 0
    /\ ret = NoReturn
    /\ obs = Obs("init", NoDecision, 0, 0, FALSE)
    /\ replies = 0
    /\ empties = 0

\* agent.py:116  one call of the Decision Engine
DecideCall ==
    /\ pc = "call"
    /\ out' = decide_next_action(state, history, last_action, inp.reply)
    /\ pc' = "returned"
    /\ UNCHANGED <<domain, state, history, last_action, iterations, ret, obs,
                   replies, empties, inp>>

DecideSpec == DecideInit /\ [][DecideCall]_vars

(***************************************************************************)
(* The claims about the Decision Engine.                                   *)
(***************************************************************************)
\* C6: the action the Decision Engine returns is one of the nine enumerated
\* actions, also when the decision object of the model names another one.
Claim_C6 ==
    (obs.step \in {"decide", "dispatch"} /\ obs.decision.kind = "pair")
        => obs.decision.action \in ActionEnum

\* C7: the Decision Engine returns an (action, params) pair and never
\* raises, whatever the state and the history of the run hold.
Claim_C7 ==
    obs.step \in {"decide", "dispatch"} => obs.decision.kind = "pair"

\* the model is asked once both summaries are built (agent.py:206-208 come
\* before the call of line 328); its proposal is the action of the decision
\* object the interpreter hands back
ModelAsked ==
    /\ ~format_state_summary_raises(inp.st)
    /\ ~format_history_summary_raises(inp.h)
ProposedAction(action) ==
    /\ ModelAsked
    /\ ~inp.reply.raises
    /\ LET decision == try_parse_json_from_llm_response(inp.reply.text, inp.last)
       IN  /\ decision.truthy
           /\ decision.t = "obj"
           /\ decision.has_action
           /\ decision.action = action

\* the 8-rule chain as the specification states it: the conditions in their
\* order of priority, and the pair of each rule
RuleHolds(i, st) ==
    CASE i = 1 -> Len(st.keywords) = 0
      [] i = 2 -> Len(st.github_repos) = 0
      [] i = 3 -> Len(st.web_queries) = 0
      [] i = 4 -> Len(st.web_search_results) = 0
      [] i = 5 -> Len(st.web_search_results) > 0 /\ Len(st.candidate_repos) = 0
      [] i = 6 -> (Len(st.github_repos) > 0 \/ Len(st.candidate_repos) > 0)
                  /\ Len(st.ranked_repos) = 0
      [] i = 7 -> Len(st.ranked_repos) > 0 /\ IsEmptyStr(st.final_report)
      [] i = 8 -> TRUE
RulePair(i, st) ==
    CASE i = 1 -> Pair("GENERATE_KEYWORDS", EmptyParams)
      [] i = 2 -> Pair("SEARCH_GITHUB", KeywordsParams(st.keywords))
      [] i = 3 -> Pair("GENERATE_WEB_QUERIES", EmptyParams)
      [] i = 4 -> Pair("SEARCH_WEB", QueryParams(st.web_queries[1]))
      [] i = 5 -> Pair("EXTRACT_GITHUB_LINKS",
                       UrlParams(st.web_search_results[1].url))
      [] i = 6 -> Pair("CALCULATE_SCORES", EmptyParams)
      [] i = 7 -> Pair("GENERATE_REPORT", EmptyParams)
      [] i = 8 -> Pair("COMPLETE", EmptyParams)
RuleChain(st) ==
    LET first == CHOOSE i \in 1..8 :
                    RuleHolds(i, st) /\ \A j \in 1..(i - 1) : ~RuleHolds(j, st)
    IN  RulePair(first, st)

\* the tree is reached when the call of the model raised or when the model
\* path returned nothing
FallbackReached ==
    /\ ModelAsked
    /\ \/ inp.reply.raises
       \/ ModelPath(try_parse_json_from_llm_response(inp.reply.text, inp.last),
                    inp.st) = NoPair

\* C8: a GENERATE_REPORT proposed by the model is returned if and only if
\* rankedRepos is non-empty; with rankedRepos empty the Decision Engine
\* returns what the decision tree chooses for the state, which is never
\* GENERATE_REPORT.
Claim_C8 ==
    (pc = "returned" /\ ProposedAction("GENERATE_REPORT")) =>
        IF Len(inp.st.ranked_repos) > 0
        THEN out.kind = "pair" /\ out.action = "GENERATE_REPORT"
        ELSE out = DefaultDecision(inp.st) /\ out.action # "GENERATE_REPORT"

\* the model proposed GENERATE_REPORT before anything was ranked and the
\* Decision Engine returned CALCULATE_SCORES
Witness_C8 ==
    /\ pc = "returned"
    /\ ProposedAction("GENERATE_REPORT")
    /\ Len(inp.st.ranked_repos) = 0
    /\ out.kind = "pair" /\ out.action = "CALCULATE_SCORES"

\* C10: the decision tree returns the pair of the first rule of the 8-rule
\* chain that the state satisfies, whatever the history and last_action are.
Claim_C10 ==
    (pc = "returned" /\ FallbackReached) => out = RuleChain(inp.st)

\* the call of the model raised after a web search and the tree chose to
\* extract the links of the first result, the last dispatch having been idle
Witness_C10 ==
    /\ pc = "returned"
    /\ inp.reply.raises
    /\ inp.last = "DO_NOTHING"
    /\ out = Pair("EXTRACT_GITHUB_LINKS", UrlParams(PageUrl))

\* C11: for a state whose keywords are empty the decision tree returns
\* GENERATE_KEYWORDS, whatever the other fields of the state hold.
Claim_C11 ==
    (pc = "returned" /\ FallbackReached /\ Len(inp.st.keywords) = 0)
        => out = Pair("GENERATE_KEYWORDS", EmptyParams)

\* the tree chose GENERATE_KEYWORDS for a state without keywords that has
\* search results, candidates and a ranking
Witness_C11 ==
    /\ pc = "returned"
    /\ FallbackReached
    /\ Len(inp.st.keywords) = 0
    /\ Len(inp.st.github_repos) > 0
    /\ Len(inp.st.candidate_repos) > 0
    /\ Len(inp.st.ranked_repos) > 0
    /\ IsEmptyStr(inp.st.final_report)
    /\ out.action = "GENERATE_KEYWORDS"

\* agent.py:769-839  what methods 1 to 5 of the interpreter (the structured
\* extraction) find in the text of the reply
StructuredExtraction ==
    IF ParseWhole(inp.reply.text) # NoParse THEN ParseWhole(inp.reply.text)
    ELSE ParseFragments(inp.reply.text)
\* the model answered, and the structured extraction found no decision in
\* the text or found one that the validation rejects
NoStructuredDecision ==
    /\ ModelAsked
    /\ ~inp.reply.raises
    /\ ModelPath(StructuredExtraction, inp.st) = NoPair

\* C13 as stated: whenever the structured extraction yields no decision or
\* the decision fails the validation, the Decision Engine returns what the
\* decision tree selects for the state, whatever last_action is.
Claim_C13_AsStated ==
    (pc = "returned" /\ NoStructuredDecision) => out = DefaultDecision(inp.st)

\* C13: when the structured extraction finds nothing in the text, the
\* Decision Engine returns SEARCH_GITHUB if last_action is GENERATE_KEYWORDS
\* and CALCULATE_SCORES if it is SEARCH_GITHUB, whatever the state; in every
\* other case without a valid structured decision it returns what the
\* decision tree selects for the state.
Claim_C13 ==
    (pc = "returned" /\ NoStructuredDecision) =>
        IF StructuredExtraction = NoParse /\ inp.last = "GENERATE_KEYWORDS"
        THEN out = Pair("SEARCH_GITHUB", EmptyParams)
        ELSE IF StructuredExtraction = NoParse /\ inp.last = "SEARCH_GITHUB"
        THEN out = Pair("CALCULATE_SCORES", EmptyParams)
        ELSE out = DefaultDecision(inp.st)

\* the reply was prose after a GENERATE_KEYWORDS that produced nothing: the
\* Decision Engine returned SEARCH_GITHUB where the tree selects
\* GENERATE_KEYWORDS
Witness_C13 ==
    /\ pc = "returned"
    /\ NoStructuredDecision
    /\ StructuredExtraction = NoParse
    /\ inp.last = "GENERATE_KEYWORDS"
    /\ Len(inp.st.keywords) = 0
    /\ DefaultDecision(inp.st).action = "GENERATE_KEYWORDS"
    /\ out.action = "SEARCH_GITHUB"

\* C12: in a run in which no call of the model returns (every decision is
\* taken by the decision tree), no action is decided in two consecutive
\* iterations, and the loop ends by the COMPLETE decision with a final
\* report written, whatever the collaborators return.
Claim_C12 ==
    replies = 0 =>
        /\ \A i \in 1..(Len(history) - 1) :
              history[i].action # history[i + 1].action
        /\ pc = "post" =>
              LastDecisionIs("COMPLETE") /\ ~IsEmptyStr(state.final_report)

(***************************************************************************)
(* The claims about the dispatch and the fold.                             *)
(***************************************************************************)
\* a step of the loop that dispatched an action, and one in which a
\* collaborator call of the dispatch failed
DispatchStep ==
    /\ pc = "loop"
    /\ obs'.step = "dispatch"
    /\ obs'.dispatches = obs.dispatches + 1
FailedDispatch == DispatchStep /\ obs'.failed

\* the URLs of the pool whose detail fetch succeeds
Fetchable(pool, up) ==
    SelectSeq(pool, LAMBDA u : ~get_repo_details(u, up).empty)

MaxFolds == 2

FoldDecisions ==
    {Pair(a, p) : a \in (ActionEnum \ {"COMPLETE"}) \cup OtherActions,
                  p \in {EmptyParams, ListParams}}
    \cup {Pair("SEARCH_GITHUB", KeywordsParams(DefaultKeywords)),
          Pair("SEARCH_GITHUB", KeywordsParams(<<>>)),
          Pair("EXTRACT_GITHUB_LINKS", UrlParams(PageUrl))}
    \cup {Pair("GET_REPO_DETAILS", RepoUrlParams(u)) :
             u \in {UrlB, UrlAliasA, UrlGone}}

FoldInit ==
    /\ pc = "fold"
    /\ state \in DecideStates
    /\ domain = DecideDomain
    /\ history = <<>>
    /\ last_action = NoAction
    /\ iterations = 0
    /\ ret = NoReturn
    /\ obs = Obs("init", NoDecision, 0, 0, FALSE)
    /\ replies = 0
    /\ empties = 0
    /\ inp = NoInp
    /\ out = ResNone

\* agent.py:123-124  result = _execute_action(...); state = _update_state(...)
Fold ==
    /\ pc = "fold"
    /\ iterations < MaxFolds
    /\ \E d \in FoldDecisions :
        /\ DecisionAccepted(d.action, state)
        /\ \E env \in EnvFor(d.action, domain) :
            \E result \in {execute_action(d.action, d.params, state, env)} :
              /\ state' = update_state(state, d.action, result)
              /\ out' = result
              /\ obs' = ObsDispatch(d, obs.decisions, obs.dispatches + 1,
                                    d.action \in ActionEnum,
                                    CallFailed(d.action, d.params, state, env),
                                    env.up)
    /\ iterations' = iterations + 1
    /\ UNCHANGED <<pc, domain, history, last_action, ret, replies, empties, inp>>

FoldSpec == FoldInit /\ [][Fold]_vars

\* a step that dispatched an action and folded its result
FoldStep ==
    /\ pc = "fold"
    /\ obs'.step = "dispatch"
    /\ obs'.dispatches = obs.dispatches + 1

\* C15: a dispatch whose result is empty or falsy (an empty list, an empty
\* object, an empty string, None) leaves every field of the WorkState as it
\* was, for every action.
Claim_C15 ==
    [][(FoldStep /\ ~Truthy(out')) => state' = state]_vars

\* GENERATE_KEYWORDS was dispatched on a state that had keywords and
\* returned an empty list: the keywords are still there
Witness_C15 ==
    /\ pc = "fold"
    /\ obs.step = "dispatch"
    /\ obs.decision.action = "GENERATE_KEYWORDS"
    /\ out = ResList(<<>>)
    /\ state.keywords = DefaultKeywords

\* the fields of the WorkState, and the field the action table assigns to
\* each action
Fields ==
    {"domain", "keywords", "github_repos", "web_queries", "web_search_results",
     "candidate_repos", "ranked_repos", "final_report"}
FieldOf(action) ==
    CASE action = "GENERATE_KEYWORDS" -> "keywords"
      [] action = "SEARCH_GITHUB" -> "github_repos"
      [] action = "GENERATE_WEB_QUERIES" -> "web_queries"
      [] action = "SEARCH_WEB" -> "web_search_results"
      [] action \in {"EXTRACT_GITHUB_LINKS", "GET_REPO_DETAILS"} ->
            "candidate_repos"
      [] action = "CALCULATE_SCORES" -> "ranked_repos"
      [] action = "GENERATE_REPORT" -> "final_report"
      [] OTHER -> "<none>"

\* C18: a dispatched action changes at most the field the action table
\* assigns to it and leaves every other field as it was; no action changes
\* domain.
Claim_C18 ==
    [][FoldStep =>
        \A f \in Fields :
            f # FieldOf(obs'.decision.action) => state'[f] = state[f]]_vars

\* GET_REPO_DETAILS added the URL of the repository to a pool that held two
\* others, in a state with a ranking and a report
Witness_C18 ==
    /\ pc = "fold"
    /\ obs.step = "dispatch"
    /\ obs.decision.action = "GET_REPO_DETAILS"
    /\ Truthy(out)
    /\ state.candidate_repos = <<UrlAliasA, UrlGone, UrlB>>
    /\ Len(state.ranked_repos) > 0
    /\ ~IsEmptyStr(state.final_report)

NoDuplicates(seq) ==
    \A i, j \in 1..Len(seq) : seq[i] = seq[j] => i = j
IsPrefix(a, b) ==
    Len(a) <= Len(b) /\ \A i \in 1..Len(a) : a[i] = b[i]

\* C19: candidateRepoUrls never holds a URL twice, and a merge by
\* EXTRACT_GITHUB_LINKS or GET_REPO_DETAILS keeps the entries of the pool in
\* their order and appends only URLs the pool did not hold.
Claim_C19 ==
    /\ [](NoDuplicates(state.candidate_repos))
    /\ [][FoldStep =>
            /\ IsPrefix(state.candidate_repos, state'.candidate_repos)
            /\ \A i \in (Len(state.candidate_repos) + 1)
                        ..Len(state'.candidate_repos) :
                  ~Member(state.candidate_repos, state'.candidate_repos[i])]_vars

\* EXTRACT_GITHUB_LINKS returned two links of which the pool held one: the
\* pool keeps its entries and gains the other one
Witness_C19 ==
    /\ pc = "fold"
    /\ obs.step = "dispatch"
    /\ obs.decision.action = "EXTRACT_GITHUB_LINKS"
    /\ out = ResList(<<UrlAliasA, UrlGone>>)
    /\ state.candidate_repos = <<UrlA, UrlAliasA, UrlGone>>
    /\ iterations = 2

SortedByScore(repos) ==
    \A i \in 1..(Len(repos) - 1) : repos[i].score >= repos[i + 1].score

\* C20: rankedRepos is always sorted by non-increasing score and holds at
\* most 10 records, and a CALCULATE_SCORES with a non-empty result replaces
\* it by the ranking computed from the search results and the pool: nothing
\* of the previous ranking is kept.
Claim_C20 ==
    /\ [](SortedByScore(state.ranked_repos) /\ Len(state.ranked_repos) <= TopN)
    /\ [][(FoldStep /\ obs'.decision.action = "CALCULATE_SCORES"
           /\ Truthy(out'))
          => \E up \in BOOLEAN :
                state'.ranked_repos = calculate_scores(state, up)]_vars

\* CALCULATE_SCORES ranked a search of eleven items: the ranking holds ten
Witness_C20 ==
    /\ pc = "fold"
    /\ obs.step = "dispatch"
    /\ obs.decision.action = "CALCULATE_SCORES"
    /\ Len(FromSearch(state.github_repos)) > TopN
    /\ Len(state.ranked_repos) = TopN
    /\ state.ranked_repos = out.v

(***************************************************************************)
(* The claims about the history and the end of run().                      *)
(***************************************************************************)
\* C16: within a run the history only grows: a dispatch appends one entry
\* with the action and the params of the decision, also when the action
\* failed or is unknown; no other step of the run changes the history; its
\* length is the number of dispatches.
Claim_C16 ==
    /\ [](Len(history) = obs.dispatches)
    /\ [][pc \notin {"idle", "done"} =>
            IF DispatchStep
            THEN /\ Len(history') = Len(history) + 1
                 /\ SubSeq(history', 1, Len(history)) = history
                 /\ history'[Len(history')].action = obs'.decision.action
                 /\ history'[Len(history')].params = obs'.decision.params
            ELSE history' = history]_vars

\* the history of a run holds the search with its keywords and, after it,
\* an unknown action that was dispatched
Witness_C16 ==
    /\ pc = "loop"
    /\ Len(history) = 3
    /\ history[2].action = "SEARCH_GITHUB"
    /\ history[2].params = KeywordsParams(DefaultKeywords)
    /\ history[3].action = "DO_NOTHING"
    /\ history[3].result_summary.shape = "none"

\* C17: after the loop, if finalReport is empty and rankedRepos is not, the
\* Report Composer is called on rankedRepos and run() returns its result;
\* otherwise the composer is not called and the state is returned as it is.
Claim_C17 ==
    [][(pc = "post" /\ pc' = "done") =>
        IF IsEmptyStr(state.final_report) /\ Len(state.ranked_repos) > 0
        THEN /\ obs'.step = "compose" /\ obs'.called
             /\ state'.final_report
                    \in generate_final_report_results(state.ranked_repos)
             /\ \A f \in Fields \ {"final_report"} : state'[f] = state[f]
             /\ ret' = state'.final_report
        ELSE /\ obs'.step = "return" /\ ~obs'.called
             /\ state' = state
             /\ ret' = state.final_report]_vars

\* the model chose COMPLETE after the ranking and before any report: the
\* composer was called after the loop and its report was returned
Witness_C17 ==
    /\ pc = "done"
    /\ obs.step = "compose"
    /\ LastDecisionIs("COMPLETE")
    /\ Len(state.ranked_repos) > 0
    /\ ret = FallbackReport(state.ranked_repos)

\* C21: CALCULATE_SCORES dispatched twice in succession, the GitHub API
\* answering the detail fetches of both dispatches alike, leaves rankedRepos
\* after the second dispatch as it was after the first (same records, same
\* order, same scores), and the second result has the size of the first.
ScoredTwice ==
    /\ DispatchStep
    /\ obs.step = "dispatch"
    /\ obs.decision.action = "CALCULATE_SCORES"
    /\ obs'.decision.action = "CALCULATE_SCORES"
    /\ obs'.up = obs.up
MaxInterpCalls == 2
MaxInterpDispatches == 2

InterpVals ==
    {JDecision("COMPLETE", EmptyParams),
     JObj({"action"}, "GENERATE_REPORT", EmptyParams),
     JObj({"reasoning"}, "", EmptyParams),
     JEmptyObj,
     JOther("list", TRUE, TRUE),
     JOther("list", TRUE, FALSE),
     JOther("list", FALSE, FALSE),
     JOther("num", TRUE, FALSE),
     JOther("str", TRUE, FALSE),
     JOther("null", FALSE, FALSE)}

InterpBodies ==
    {<<Doc(v)>> : v \in InterpVals}
    \cup {<<Prose, Newline, Doc(v), Newline, Prose>> : v \in InterpVals}
    \cup {<<Doc(JObj({"reasoning"}, "", EmptyParams)), Prose, Doc(v)>> :
             v \in {JObj({"action"}, "GENERATE_REPORT", EmptyParams),
                    JDecision("COMPLETE", EmptyParams)}}
    \cup {<<Doubled(v)>> :
             v \in {JObj({"action"}, "GENERATE_REPORT", EmptyParams),
                    JDecision("COMPLETE", EmptyParams), JEmptyObj}}
    \cup {<<Broken(v)>> :
             v \in {JObj({"action"}, "GENERATE_REPORT", EmptyParams),
                    JDecision("SEARCH_GITHUB", KeywordsParams(DefaultKeywords))}}
    \cup {<<Prose>>, <<Prose, Newline, Prose>>, <<>>, <<Junk>>,
          <<Prose, Newline, Junk>>,
          <<JsonWord, Newline, Doc(JDecision("COMPLETE", EmptyParams))>>}

\* a text between the markers of a code fence, each on its own line
WrapJson(text) == <<Fence, JsonWord, Newline>> \o text \o <<Newline, Fence>>
WrapPlain(text) == <<Fence, Newline>> \o text \o <<Newline, Fence>>

InterpTexts ==
    InterpBodies
    \cup {WrapJson(t) : t \in InterpBodies}
    \cup {WrapPlain(t) : t \in InterpBodies}
    \cup {<<Prose, Newline>>
            \o WrapJson(<<Doc(JDecision("COMPLETE", EmptyParams))>>)
            \o <<Newline, Prose>>}

\* the actions the loop dispatches between the calls
InterpActions == {"GENERATE_KEYWORDS", "SEARCH_GITHUB", "CALCULATE_SCORES"}

InterpInit ==
    /\ pc = "interp"
    /\ inp \in {[text |-> t] : t \in InterpTexts}
    /\ out = <<>>
    /\ domain = DecideDomain
    /\ state = InitState(DecideDomain)
    /\ history = <<>>
    /\ last_action = NoAction
    /\ iterations = 0
    /\ ret = NoReturn
    /\ obs = Obs("init", NoDecision, 0, 0, FALSE)
    /\ replies = 0
    /\ empties = 0

\* agent.py:338, 752-860  a call of the interpreter on the text
InterpCall ==
    /\ pc = "interp"
    /\ Len(out) < MaxInterpCalls
    /\ out' = Append(out, [last |-> last_action,
                           result |-> parse_llm_response(inp.text, last_action)])
    /\ UNCHANGED <<pc, domain, state, history, last_action, iterations, ret,
                   obs, replies, empties, inp>>

\* agent.py:127-132  the loop has dispatched an action
InterpDispatch ==
    /\ pc = "interp"
    /\ Len(history) < MaxInterpDispatches
    /\ \E a \in InterpActions :
          /\ history' = Append(history, HistoryEntry(a, EmptyParams, ResNone))
          /\ last_action' = a
    /\ UNCHANGED <<pc, domain, state, iterations, ret, obs, replies, empties,
                   inp, out>>

InterpSpec == InterpInit /\ [][InterpCall \/ InterpDispatch]_vars

(***************************************************************************)
(* The claims about the Response Interpreter.                              *)
(***************************************************************************)
\* a step in which the interpreter was called
InterpCallStep == pc = "interp" /\ Len(out') = Len(out) + 1

\* C22: every value the interpreter returns is the empty object or an
\* object with the key "action": a parse that yields anything else (an
\* object without "action", a list, a number, a string, null) is not
\* returned.
Claim_C22 ==
    pc = "interp" =>
        \A i \in 1..Len(out) :
            \/ out[i].result = JEmptyObj
            \/ out[i].result.t = "obj" /\ out[i].result.has_action

\* a text of prose: words and white space, nothing else
IsProse(text) ==
    /\ \E i \in 1..Len(text) : text[i].k = "prose"
    /\ \A i \in 1..Len(text) : text[i].k \in {"prose", "nl"}

\* C23 as stated: for a text of prose the interpreter returns the empty
\* object, whatever last_action is.
Claim_C23_AsStated ==
    (pc = "interp" /\ IsProse(inp.text)) =>
        \A i \in 1..Len(out) : out[i].result = JEmptyObj

\* C23: for a text of prose the interpreter returns the empty object unless
\* last_action is GENERATE_KEYWORDS or SEARCH_GITHUB; it then returns the
\* decision SEARCH_GITHUB, respectively CALCULATE_SCORES, with empty params.
Claim_C23 ==
    (pc = "interp" /\ IsProse(inp.text)) =>
        \A i \in 1..Len(out) :
            out[i].result =
                IF out[i].last = "GENERATE_KEYWORDS"
                THEN JDecision("SEARCH_GITHUB", EmptyParams)
                ELSE IF out[i].last = "SEARCH_GITHUB"
                THEN JDecision("CALCULATE_SCORES", EmptyParams)
                ELSE JEmptyObj

\* the interpreter returned the empty object for a prose text before any
\* dispatch, and CALCULATE_SCORES for the same text after a SEARCH_GITHUB
Witness_C23 ==
    /\ pc = "interp"
    /\ IsProse(inp.text)
    /\ Len(out) = 2
    /\ out[1].last = NoAction /\ out[1].result = JEmptyObj
    /\ out[2].last = "SEARCH_GITHUB"
    /\ out[2].result.action = "CALCULATE_SCORES"

\* the last actions the interpreter tells apart
HeuristicClass(last) ==
    IF last \in {"GENERATE_KEYWORDS", "SEARCH_GITHUB"} THEN last ELSE NoAction

\* C24 as stated: two calls of the interpreter on the same text return the
\* same value, whatever was dispatched between them, and a call leaves the
\* history, last_action and the WorkState as they were.
Claim_C24_AsStated ==
    /\ [](pc = "interp" =>
            \A i, j \in 1..Len(out) : out[i].result = out[j].result)
    /\ [][InterpCallStep =>
            UNCHANGED <<history, last_action, state>>]_vars

\* C24: a call of the interpreter leaves the history, last_action and the
\* WorkState as they were, and its value is a function of the text and of
\* last_action: two calls on the same text return different values only if
\* no method finds anything in the text and last_action was
\* GENERATE_KEYWORDS at one call or SEARCH_GITHUB at one call, and not the
\* same at the other.
Claim_C24 ==
    /\ [](pc = "interp" =>
            \A i, j \in 1..Len(out) :
                out[i].result # out[j].result =>
                    /\ Describe(inp.text).form = "prose"
                    /\ HeuristicClass(out[i].last) # HeuristicClass(out[j].last))
    /\ [][InterpCallStep =>
            UNCHANGED <<history, last_action, state>>]_vars

\* two calls on a text that holds a decision, GENERATE_KEYWORDS dispatched
\* before the first and SEARCH_GITHUB between them, returned that decision
Witness_C24 ==
    /\ pc = "interp"
    /\ Len(out) = 2 /\ Len(history) = 2
    /\ out[1].last = "GENERATE_KEYWORDS" /\ out[2].last = "SEARCH_GITHUB"
    /\ out[1].result = JDecision("COMPLETE", EmptyParams)
    /\ out[2].result = out[1].result

\* C25: when no method 1 to 5 finds anything in the text, the interpreter
\* returns SEARCH_GITHUB with empty params if last_action is
\* GENERATE_KEYWORDS, CALCULATE_SCORES with empty params if it is
\* SEARCH_GITHUB, and the empty object otherwise (no last action too); when
\* a method finds something, the interpreter returns what it found.
Claim_C25 ==
    pc = "interp" =>
        \A i \in 1..Len(out) :
            LET found == Describe(inp.text)
            IN  CASE found.form = "prose" ->
                       out[i].result =
                           CASE out[i].last = "GENERATE_KEYWORDS" ->
                                   JDecision("SEARCH_GITHUB", EmptyParams)
                             [] out[i].last = "SEARCH_GITHUB" ->
                                   JDecision("CALCULATE_SCORES", EmptyParams)
                             [] OTHER -> JEmptyObj
                  [] found.form = "json" -> out[i].result = found.val
                  [] OTHER ->
                       /\ out[i].result.action = found.val.action
                       /\ out[i].result.params = found.val.params

\* a text of braces around words: SEARCH_GITHUB after GENERATE_KEYWORDS, the
\* empty object after CALCULATE_SCORES
Witness_C25 ==
    /\ pc = "interp"
    /\ inp.text = <<Junk>>
    /\ Len(out) = 2
    /\ out[1].last = "GENERATE_KEYWORDS"
    /\ out[1].result = JDecision("SEARCH_GITHUB", EmptyParams)
    /\ out[2].last = "CALCULATE_SCORES"
    /\ out[2].result = JEmptyObj

\* C26: the interpreter returns for a text between the markers of a code
\* fence (```json or ```) what it returns for the text itself.
Claim_C26 ==
    pc = "interp" =>
        \A i \in 1..Len(out) :
            \A w \in {WrapJson(inp.text), WrapPlain(inp.text)} :
                parse_llm_response(w, out[i].last) = out[i].result

\* the text is a decision in a ```json fence: the decision was returned
Witness_C26 ==
    /\ pc = "interp"
    /\ inp.text = WrapJson(<<Doc(JDecision("COMPLETE", EmptyParams))>>)
    /\ Len(out) >= 1
    /\ out[1].result = JDecision("COMPLETE", EmptyParams)

(***************************************************************************)
(* Two calls of run() on one instance (src/app.py:28 creates the instance  *)
(* once and every request calls awesome_agent_logic.run on it; the server  *)
(* of app.run handles each request in a thread of its own).  history and   *)
(* last_action are attributes of the instance; pc, domain, state,          *)
(* iterations and ret are the locals of each call, one per run.  An        *)
(* iteration of the loop is taken as one step.  obs holds, for each run,   *)
(* the entries this run appended (own) and whether every other run had     *)
(* returned when it started (alone); inp holds what the last decision read.*)
(***************************************************************************)
Runs == {1, 2}
\* iterations of a run that are followed
MaxConcIterations == 2

ConcReplies == {ModelRaises, ModelSays(ProseText)}
NoRead == [run |-> 0, h |-> <<>>, last |-> NoAction, own |-> <<>>]

ConcInit ==
    /\ pc = [r \in Runs |-> "idle"]
    /\ domain = [r \in Runs |-> ""]
    /\ state = [r \in Runs |-> InitState("")]
    /\ history = <<>>
    /\ last_action = NoAction
    /\ iterations = [r \in Runs |-> 0]
    /\ ret = [r \in Runs |-> NoReturn]
    /\ obs = [r \in Runs |-> [own |-> <<>>, alone |-> FALSE]]
    /\ replies = 0
    /\ empties = 0
    /\ inp = NoRead
    /\ out = NoDecision

\* agent.py:88-90  the reset at the start of run()
ResetHistoryMutKeep(h) == h
ResetHistory(h) == <<>>

\* agent.py:83-90  run(domain) is called
ConcStart(r) ==
    /\ pc[r] = "idle"
    /\ history' = ResetHistory(history)
    /\ last_action' = NoAction
    /\ \E d \in Domains : domain' = [domain EXCEPT ![r] = d]
    /\ obs' = [obs EXCEPT ![r] =
                  [own |-> <<>>,
                   alone |-> \A o \in Runs \ {r} : pc[o] = "done"]]
    /\ pc' = [pc EXCEPT ![r] = "plan"]
    /\ UNCHANGED <<state, iterations, ret, replies, empties, inp, out>>

\* agent.py:92-110, 148-150  the planning call returns and the state is
\* created, or it raises and run() returns the message
ConcPlan(r) ==
    /\ pc[r] = "plan"
    /\ \E ok \in BOOLEAN :
          IF ok
          THEN /\ state' = [state EXCEPT ![r] = InitState(domain[r])]
               /\ iterations' = [iterations EXCEPT ![r] = 0]
               /\ pc' = [pc EXCEPT ![r] = "loop"]
               /\ ret' = ret
          ELSE /\ pc' = [pc EXCEPT ![r] = "done"]
               /\ ret' = [ret EXCEPT ![r] = StrError]
               /\ UNCHANGED <<state, iterations>>
    /\ UNCHANGED <<domain, history, last_action, obs, replies, empties, inp, out>>

\* agent.py:112-134, 148-150  one iteration of the loop of run r
ConcIterate(r) ==
    /\ pc[r] = "loop" /\ iterations[r] < MaxConcIterations
    /\ iterations' = [iterations EXCEPT ![r] = @ + 1]
    /\ inp' = [run |-> r, h |-> history, last |-> last_action, own |-> obs[r].own]
    /\ \E reply \in ConcReplies :
        \E d \in {decide_next_action(state[r], history, last_action, reply)} :
          IF d.kind # "pair"
          THEN /\ pc' = [pc EXCEPT ![r] = "done"]
               /\ ret' = [ret EXCEPT ![r] = StrError]
               /\ UNCHANGED <<state, history, last_action, obs>>
          ELSE IF IsComplete(d.action)
          THEN /\ pc' = [pc EXCEPT ![r] = "post"]
               /\ UNCHANGED <<state, history, last_action, obs, ret>>
          ELSE \E env \in {e \in EnvFor(d.action, domain[r]) : ~e.failed} :
                \E result \in {execute_action(d.action, d.params, state[r], env)} :
                  /\ state' = [state EXCEPT ![r] =
                                  update_state(state[r], d.action, result)]
                  /\ history' = Append(history,
                                       HistoryEntry(d.action, d.params, result))
                  /\ last_action' = d.action
                  /\ obs' = [obs EXCEPT ![r].own =
                                Append(@, HistoryEntry(d.action, d.params, result))]
                  /\ UNCHANGED <<pc, ret>>
    /\ UNCHANGED <<domain, replies, empties, out>>

\* agent.py:112, 136-146  the run leaves the loop (here after
\* MaxConcIterations iterations, or by COMPLETE) and returns
ConcReturn(r) ==
    /\ \/ pc[r] = "post"
       \/ pc[r] = "loop" /\ iterations[r] >= MaxConcIterations
    /\ IF NeedsReport(state[r])
       THEN \E report \in generate_final_report_results(state[r].ranked_repos) :
               state' = [state EXCEPT ![r].final_report = report]
       ELSE state' = state
    /\ ret' = [ret EXCEPT ![r] = ReturnValue(state'[r])]
    /\ pc' = [pc EXCEPT ![r] = "done"]
    /\ UNCHANGED <<domain, history, last_action, iterations, obs, replies,
                   empties, inp, out>>

ConcNext ==
    \E r \in Runs : ConcStart(r) \/ ConcPlan(r) \/ ConcIterate(r) \/ ConcReturn(r)

ConcSpec == ConcInit /\ [][ConcNext]_vars

\* C27: the history fed to a decision of a run, and the last action its
\* interpreter consults, hold the actions this run dispatched and nothing
\* else, also when another run of the same instance is in progress: the
\* history a decision reads is the list of the entries of its own run.
Claim_C27 ==
    inp.run \in Runs =>
        /\ inp.h = inp.own
        /\ inp.last = LastOf(inp.own)

\* C28: a run that is called after the other run has returned begins its
\* loop with every field of the WorkState empty except domain, with an empty
\* history and with no last action, whatever the other run left behind.
Claim_C28 ==
    \A r \in Runs :
        (pc[r] = "loop" /\ iterations[r] = 0 /\ obs[r].alone) =>
            /\ state[r].domain = domain[r]
            /\ \A f \in Fields \ {"domain", "final_report"} : Len(state[r][f]) = 0
            /\ IsEmptyStr(state[r].final_report)
            /\ history = <<>>
            /\ last_action = NoAction

\* run 1 has returned after two dispatches, and run 2, called after that,
\* is about to take its first decision
Witness_C28 ==
    /\ pc[1] = "done" /\ Len(obs[1].own) = 2
    /\ Len(state[1].keywords) > 0
    /\ pc[2] = "loop" /\ iterations[2] = 0 /\ obs[2].alone
    /\ history = <<>>

(***************************************************************************)
(* calculate_repo_score alone: one call on a repository record whose       *)
(* stars, forks and last push are drawn from the sets below.               *)
(***************************************************************************)
\* ages of the last push in whole days, with both sides of every step
ScoreAges == {0, 5, 30, 31, 180, 181, 365, 366, 730, 731, 2000}
ScoreRepos ==
    {[url |-> UrlA, stars |-> st, forks |-> fk, pushed_at |-> p,
      score |-> NoScore] :
        st \in {0, 5, 100, 500}, fk \in {0, 10},
        p \in ScoreAges \cup {PushedEmpty, PushedBad}}

ScoreInit ==
    /\ pc = "score"
    /\ inp \in ScoreRepos
    /\ out = NoScore
    /\ domain = DecideDomain
    /\ state = InitState(DecideDomain)
    /\ history = <<>>
    /\ last_action = NoAction
    /\ iterations = 0
    /\ ret = NoReturn
    /\ obs = Obs("init", NoDecision, 0, 0, FALSE)
    /\ replies = 0
    /\ empties = 0

\* agent.py:527  score = self.github_tools.calculate_repo_score(repo)
ScoreCall ==
    /\ pc = "score"
    /\ out' = calculate_repo_score(inp)
    /\ pc' = "scored"
    /\ UNCHANGED <<domain, state, history, last_action, iterations, ret, obs,
                   replies, empties, inp>>

ScoreSpec == ScoreInit /\ [][ScoreCall]_vars

\* 0.7 * ln(stars + 1) + 0.3 * ln(forks + 1), times 10^4
Popularity(repo) == 7 * LnMilli(repo.stars + 1) + 3 * LnMilli(repo.forks + 1)

\* C29: for a timestamp that parses, the score is the popularity times the
\* recency factor of the age d in whole days: 1.0 for d <= 30, 0.8 for
\* 30 < d <= 180, 0.5 for 180 < d <= 365, 0.2 for 365 < d <= 730 and 0.05
\* for d > 730 (factors in hundredths).
Claim_C29 ==
    (pc = "scored" /\ inp.pushed_at >= 0) =>
        LET d == inp.pushed_at
            factor == CASE d <= 30 -> 100
                        [] 30 < d /\ d <= 180 -> 80
                        [] 180 < d /\ d <= 365 -> 50
                        [] 365 < d /\ d <= 730 -> 20
                        [] d > 730 -> 5
        IN  out = Popularity(inp) * factor

\* a repository with 500 stars pushed 730 days ago was scored with 0.2
Witness_C29 ==
    /\ pc = "scored"
    /\ inp.stars = 500 /\ inp.forks = 10 /\ inp.pushed_at = 730
    /\ out = Popularity(inp) * 20
    /\ out > 0

\* C30: for a timestamp that does not parse, the score is the popularity
\* times the recency factor 0.1, so it is greater than 0 when the
\* repository has stars.
Claim_C30 ==
    (pc = "scored" /\ inp.pushed_at = PushedBad) =>
        /\ out = Popularity(inp) * 10
        /\ inp.stars > 0 => out > 0

(***************************************************************************)
(* The claims about the report.                                            *)
(***************************************************************************)
\* the report names the repository: a section of it holds its URL and its
\* star count
Names(report, repo) ==
    \E i \in 1..Len(report.repos) :
        report.repos[i].url = repo.url /\ report.repos[i].stars = repo.stars

\* a dispatch of GENERATE_REPORT on a ranking, the model call of the Report
\* Composer failing
FallbackComposed ==
    /\ FoldStep
    /\ obs'.decision.action = "GENERATE_REPORT"
    /\ Len(state.ranked_repos) > 0
    /\ obs'.failed

\* C31 as stated: when the model call of the Report Composer fails, the
\* report it builds holds the URL and the star count of every ranked
\* repository it was given.
Claim_C31_AsStated ==
    [][FallbackComposed =>
        \A i \in 1..Len(state.ranked_repos) :
            Names(state'.final_report, state.ranked_repos[i])]_vars

\* C31: when the model call of the Report Composer fails, the report it
\* builds holds, in the order of the ranking, one section with the URL and
\* the star count of each of the first five ranked repositories it was
\* given, and no section for a repository ranked after the fifth.
Claim_C31 ==
    [][FallbackComposed =>
        /\ state'.final_report.kind = "fallback"
        /\ Len(state'.final_report.repos) = Min(ReportTopN, Len(state.ranked_repos))
        /\ \A i \in 1..Len(state'.final_report.repos) :
              /\ state'.final_report.repos[i].url = state.ranked_repos[i].url
              /\ state'.final_report.repos[i].stars = state.ranked_repos[i].stars]_vars

\* the report built without the model for a ranking of ten repositories
\* names the first five of them and not the sixth
Witness_C31 ==
    /\ pc = "fold"
    /\ obs.step = "dispatch" /\ obs.failed
    /\ obs.decision.action = "GENERATE_REPORT"
    /\ Len(state.ranked_repos) = TopN
    /\ out = ResStr(state.final_report)
    /\ Len(state.final_report.repos) = ReportTopN
    /\ Names(state.final_report, state.ranked_repos[5])
    /\ state.ranked_repos[5].stars > 0
    /\ ~Names(state.final_report, state.ranked_repos[6])

(***************************************************************************)
(* The claims about the order of the actions of a run.                     *)
(***************************************************************************)
\* entry i of the history is a CALCULATE_SCORES that returned a ranking
RankedAt(h, i) ==
    /\ h[i].action = "CALCULATE_SCORES"
    /\ h[i].result_summary.shape = "list"
    /\ h[i].result_summary.n > 0

\* C32: every GENERATE_REPORT a run dispatches comes after a
\* CALCULATE_SCORES the same run dispatched and that returned a non-empty
\* ranking, whether the decision was the model's, the interpreter's guess or
\* the decision tree's.
Claim_C32 ==
    \A i \in 1..Len(history) :
        history[i].action = "GENERATE_REPORT" =>
            \E j \in 1..(i - 1) : RankedAt(history, j)

\* after a ranking the tree chose GENERATE_REPORT and a report was written;
\* the model then asked for GENERATE_REPORT again and it was dispatched
Witness_C32 ==
    /\ pc = "loop"
    /\ replies = 1
    /\ Len(history) >= 3
    /\ RankedAt(history, Len(history) - 2)
    /\ history[Len(history) - 1].action = "GENERATE_REPORT"
    /\ history[Len(history) - 1].result_summary.n = 1
    /\ history[Len(history)].action = "GENERATE_REPORT"
    /\ LastDecisionIs("GENERATE_REPORT")

\* the seven actions of the chain, in its order
Chain ==
    <<"GENERATE_KEYWORDS", "SEARCH_GITHUB", "GENERATE_WEB_QUERIES", "SEARCH_WEB",
      "EXTRACT_GITHUB_LINKS", "CALCULATE_SCORES", "GENERATE_REPORT">>
ActionsOf(h) == [i \in 1..Len(h) |-> h[i].action]

\* a run in progress or ended in which the planning call returned, the call
\* of the model failed at every decision and every decision was returned by
\* the decision tree
TreeRun ==
    /\ pc \in {"loop", "post", "done"}
    /\ obs.step # "plan" \/ pc = "loop"
    /\ replies = 0
    /\ ~(obs.step = "decide" /\ obs.decision.kind # "pair")

\* the dispatch of this entry ended before it called its collaborator: the
\* link extraction without a URL (agent.py:445-446)
StoppedBeforeCall(e) ==
    /\ e.action = "EXTRACT_GITHUB_LINKS"
    /\ e.params = UrlParams("")
    /\ FirstUrl(state.web_search_results) = ""

\* the conclusion of C33: the dispatches follow the chain, the loop is left
\* by the 8th decision, which is COMPLETE, after all seven actions
FollowsChain ==
    /\ IsPrefix(ActionsOf(history), Chain)
    /\ obs.decisions <= Len(Chain) + 1
    /\ pc \in {"post", "done"} =>
          /\ ActionsOf(history) = Chain
          /\ LastDecisionIs("COMPLETE")
          /\ obs.decisions = Len(Chain) + 1

\* C33: in a run decided by the tree alone (the planning call returned, the
\* call of the model failed at every decision) in which no collaborator
\* returned an empty result, the dispatched actions are the seven of the
\* chain in its order and the 8th decision is COMPLETE.
Claim_C33 ==
    (/\ TreeRun
     /\ \A i \in 1..Len(history) :
            history[i].result_summary.n > 0 \/ StoppedBeforeCall(history[i]))
        => FollowsChain

\* the tree returns COMPLETE for st only if st has a ranking and a report
CompleteOnlyWithReport(st) ==
    DefaultDecision(st) = Pair("COMPLETE", EmptyParams) =>
        Len(st.ranked_repos) > 0 /\ ~IsEmptyStr(st.final_report)
CompleteOnlyWithReportEverywhere ==
    \A st \in DecideStates : CompleteOnlyWithReport(st)
\* C34: the decision tree returns COMPLETE only for a state whose
\* rankedRepos and finalReport are both non-empty (the state of the run and
\* every state of DecideStates), so a run in which the
\* tree took every decision and that left its loop by COMPLETE has a final
\* report.
Claim_C34 ==
    /\ CompleteOnlyWithReportEverywhere
    /\ CompleteOnlyWithReport(state)
    /\ (TreeRun /\ pc \in {"post", "done"} /\ LastDecisionIs("COMPLETE")) =>
          /\ Len(state.ranked_repos) > 0
          /\ ~IsEmptyStr(state.final_report)
          /\ pc = "done" => ret = state.final_report

\* a run in which the call of the model failed at every decision returned
\* its report after the tree had decided COMPLETE
Witness_C34 ==
    /\ pc = "done"
    /\ replies = 0
    /\ LastDecisionIs("COMPLETE")
    /\ obs.step = "return"
    /\ DefaultDecision(state) = Pair("COMPLETE", EmptyParams)
    /\ ret = state.final_report /\ ~IsEmptyStr(ret)

\* C35: when the planning call raises, run() returns the error message: no
\* decision is taken (the decision tree is not consulted), no action is
\* dispatched, and the WorkState, the history and last_action stay as the
\* start of the run left them.
Claim_C35 ==
    /\ []((pc \in {"done", "raised"} /\ obs.step = "plan") =>
            /\ pc = "done" /\ ret = StrError
            /\ obs.decisions = 0 /\ obs.dispatches = 0 /\ ~obs.called
            /\ history = <<>> /\ last_action = NoAction)
    /\ [][(pc = "plan" /\ pc' # "loop") =>
            /\ pc' = "done" /\ ret' = StrError
            /\ UNCHANGED <<state, history, last_action, iterations>>]_vars

\* the planning call of run("containerization") raised and the run returned
\* the error message, with nothing decided and nothing dispatched
Witness_C35 ==
    /\ pc = "done" /\ obs.step = "plan"
    /\ domain = "containerization"
    /\ ret = StrError
    /\ obs.decisions = 0 /\ obs.dispatches = 0
    /\ history = <<>>

(***************************************************************************)
(* The claims about the WorkState over the dispatches of a run.            *)
(***************************************************************************)
\* C36: no dispatch empties a field of the WorkState: keywords,
\* github_repos, web_queries, web_search_results, candidate_repos,
\* ranked_repos and final_report, once non-empty, are non-empty after every
\* dispatch, whatever the action, its params and its result; and every URL
\* of candidate_repos is still in it after the dispatch.
Claim_C36 ==
    [][FoldStep =>
        /\ \A f \in Fields \ {"domain", "final_report"} :
              Len(state[f]) > 0 => Len(state'[f]) > 0
        /\ ~IsEmptyStr(state.final_report) => ~IsEmptyStr(state'.final_report)
        /\ \A i \in 1..Len(state.candidate_repos) :
              Member(state'.candidate_repos, state.candidate_repos[i])]_vars

\* two dispatches on a state with every field written, the second a link
\* extraction that returned one more link: every field is still non-empty
\* and the pool has kept its two URLs
Witness_C36 ==
    /\ pc = "fold"
    /\ iterations = 2
    /\ obs.step = "dispatch"
    /\ obs.decision.action = "EXTRACT_GITHUB_LINKS"
    /\ out = ResList(<<UrlA>>)
    /\ state.candidate_repos = <<UrlAliasA, UrlGone, UrlA>>
    /\ \A f \in Fields \ {"domain", "final_report"} : Len(state[f]) > 0
    /\ ~IsEmptyStr(state.final_report)

\* an iteration whose decision names an action outside the enumeration
UnknownDecided ==
    /\ pc = "loop"
    /\ obs'.decisions = obs.decisions + 1
    /\ obs'.decision.kind = "pair"
    /\ obs'.decision.action \notin ActionEnum

\* C37: when the Decision Engine returns an action outside the
\* enumeration, the dispatch returns None without calling a collaborator
\* and the WorkState stays as it was; the loop goes on with one entry more
\* in the history (the name, the params, the summary of None), last_action
\* set to the name and one iteration of the budget spent.
Claim_C37 ==
    [][UnknownDecided =>
        /\ pc' = "loop"
        /\ state' = state
        /\ ~obs'.called /\ ~obs'.failed
        /\ obs'.dispatches = obs.dispatches + 1
        /\ history' = Append(history,
              [action |-> obs'.decision.action, params |-> obs'.decision.params,
               result_summary |-> [shape |-> "none", n |-> 0]])
        /\ last_action' = obs'.decision.action
        /\ iterations' = iterations + 1
        /\ iterations' <= max_iterations]_vars

\* the model named DO_NOTHING after the keywords had been generated: the
\* keywords are still the only field written, and the name is in the history
\* and in last_action
Witness_C37 ==
    /\ pc = "loop"
    /\ iterations = 2
    /\ obs.step = "dispatch" /\ LastDecisionIs("DO_NOTHING")
    /\ Len(history) = 2
    /\ history[2].action = "DO_NOTHING"
    /\ history[2].result_summary = [shape |-> "none", n |-> 0]
    /\ last_action = "DO_NOTHING"
    /\ state = [InitState(domain) EXCEPT !.keywords = DefaultKeywords]

\* C38: in a run that executes alone, at every decision the last_action the
\* interpreter reads is the action of the last entry of the history, and it
\* is None exactly when the history is empty.
Claim_C38 ==
    (pc = "loop" /\ LoopGuard(iterations)) =>
        /\ last_action = LastOf(history)
        /\ last_action = NoAction <=> Len(history) = 0


\* C39: in every reachable state of a run the ranked_repos of the WorkState
\* hold no two records with the same repository URL.
Claim_C39 ==
    \A i, j \in 1..Len(state.ranked_repos) :
        state.ranked_repos[i].url = state.ranked_repos[j].url => i = j

============================================================================
